---- MODULE Spec2Model ----
(***************************************************************************)
(* Glyph outline -> mesh triangulation (src/src/mesh.rs), text layout      *)
(* (src/src/mesh.rs, src/src/text.rs) and span compositing                 *)
(* (src/src/renderer.rs), as state machines.                               *)
(*                                                                         *)
(* Conventions.                                                            *)
(*  - Outline coordinates are f32 in the source.  They are kept here as    *)
(*    integers counting HALF font units, so that the midpoint taken by     *)
(*    curve_to, x1 + (x2 - x1) / 2.0, is exact for every integral input    *)
(*    (inputs are even numbers of half units).                             *)
(*  - UV coordinates are kept in halves as well: <<1, 0>> is (0.5, 0.0)    *)
(*    and <<2, 2>> is (1.0, 1.0).                                          *)
(*  - Option<T> is NoneVal or Some(v).  A panic (an unwrap on None or on   *)
(*    Err) ends the process: the program counter names the panic.          *)
(*  - u16 arithmetic is taken modulo U16Mod.                               *)
(***************************************************************************)
EXTENDS Integers, Naturals, Sequences, FiniteSets, TLC

VARIABLES
    \* ---- GlyphMeshBuilder (mesh.rs 13-17) and the position of build ----
    reverse_wind,      \* GlyphMeshBuilder.reverse_wind
    polygons,          \* GlyphMeshBuilder.polygons : Vec<Vec<(f32, f32)>>
    bezier_polygons,   \* GlyphMeshBuilder.bezier_polygons
    gpc,               \* where GlyphMeshBuilder::build is
    glyph_mesh,        \* what build returned (Option<GlyphMesh>)
    glog,              \* counts of the outline events received, and earcut's answer
    \* ---- TextMeshBuilder (mesh.rs 165-169) and the position of build ----
    mesh_data,         \* TextMeshBuilder.mesh_data : Vec<(Option<GlyphMesh>, GlyphData)>
    font_size,         \* TextMeshBuilder.font_size
    position,          \* TextMeshBuilder.position
    tpc,               \* where TextMeshBuilder::build is
    text_mesh,         \* what build returned (TextMesh), with the final cursor
    overflow_checks,   \* the build profile: TRUE when integer overflow panics
    \* ---- Span (text.rs 38-47) and the position of generate_text_mesh ----
    span,              \* the Span: text (as shaped), position, font_size, size,
                       \* v_align, h_align, color
    face,              \* what the Span reads of its font face
    spc,               \* where generate_text_mesh is
    measured,          \* generate_text_mesh's local width, in pixels (a fraction)
    \* ---- TextureRenderer (renderer.rs 19-32) and the locals of render ----
    spans,             \* TextureRenderer.spans : Vec<Span>
    all_vertices,      \* render's all_vertices, as runs of vertices
    all_indices,       \* render's all_indices : Vec<u16>
    all_colors,        \* render's all_colors, the palette
    passed,            \* per span processed: the color_index it was passed and
                       \* the number of indices it contributed
    rpc,               \* where render is
    backend            \* render's exchange with the device and queue: the
                       \* calls made, the queue, the output buffer's mapping

gvars == <<reverse_wind, polygons, bezier_polygons, gpc, glyph_mesh, glog>>

tvars == <<mesh_data, font_size, position, tpc, text_mesh, overflow_checks>>

svars == <<span, face, spc, measured>>

rvars == <<spans, all_vertices, all_indices, all_colors, passed, rpc, backend>>

vars == <<gvars, tvars, svars, rvars>>

(***************************************************************************)
(* Bounds of the model.                                                    *)
(***************************************************************************)
MaxEvents == 3     \* outline events fed to one GlyphMeshBuilder
MaxCurves == 1     \* of which quad_to / curve_to events
MaxRingEvents == 4 \* move_to / line_to events of a straight-edged outline
MaxGroupEvents == 5 \* move_to / line_to events of an outline of several rings

MaxGlyphs == 3     \* (mesh, data) pairs added to one TextMeshBuilder
MaxTextLen == 3    \* glyphs shaped from the text of one Span
MaxSpans == 3      \* spans added to one TextureRenderer

\* 2^16: the width of the u16 index type (mesh.rs 9, 67, 77, 92)
U16Mod == 65536

\* 2^24: every integer up to it is an f32; beyond it f32 keeps 24 bits.
F32Exact == 16777216

\* i32::MAX, 2^31 - 1: what `as i32` answers for an f32 from 2^31 up, and
\* the last usize `as i32` leaves as it is (text.rs 31-32).
I32Max == 2147483647

\* The points outline events are drawn from, in half units.
Coords == {<<0, 0>>, <<4, 0>>, <<0, 4>>}

\* The off-curve control points of quad_to and curve_to, in half units.
CtrlCoords == {<<4, 0>>, <<0, 4>>}

\* The points of straight-edged outlines, in half units: (0,0), (2,0),
\* (8191,8190) and (8190,8189).  The products of the last two are past 2^24.
RingCoords == {<<0, 0>>, <<4, 0>>, <<16382, 16380>>, <<16380, 16378>>}

\* The earcut answers of straight-edged outlines.
RingEarcutModes == {"fan", "err"}

\* The points and control points of the outlines whose winding is followed.
WindCoords == {<<0, 0>>, <<4, 0>>}

WindCtrlCoords == {<<0, 4>>}

\* The outline tables of a face, as face.tables() answers them.
Tables(glyf, cff, cff2) == [glyf |-> glyf, cff |-> cff, cff2 |-> cff2]

\* A TrueType face and a CFF face.
OutlineFaces == { Tables(TRUE, FALSE, FALSE), Tables(FALSE, TRUE, FALSE) }

FaceTables ==
    OutlineFaces \cup
    { Tables(FALSE, FALSE, TRUE),      \* CFF2 outlines
      Tables(TRUE, TRUE, FALSE) }      \* both glyf and CFF

NoneVal == [some |-> FALSE]
Some(v) == [some |-> TRUE, val |-> v]
IsSome(o) == o.some

(***************************************************************************)
(* Helpers on sequences.                                                   *)
(***************************************************************************)
Last(s) == s[Len(s)]

RECURSIVE Flatten(_)
Flatten(ss) == IF ss = <<>> THEN <<>> ELSE Head(ss) \o Flatten(Tail(ss))

(***************************************************************************)
(* f32.  An i32 converted with `as f32`, and the sum, difference or        *)
(* product of two f32 that hold integers, is the nearest value with a      *)
(* 24-bit significand, ties to the even significand.  Scaling by a power   *)
(* of two commutes with the rounding, so it is applied to half and quarter *)
(* units as it is to units.                                                *)
(***************************************************************************)
RECURSIVE F32Ulp(_)
F32Ulp(a) == IF a < F32Exact THEN 1 ELSE 2 * F32Ulp(a \div 2)

F32RoundAbs(a) ==
    LET u == F32Ulp(a)
        q == a \div u
        r == a % u
    IN  IF 2 * r < u THEN q * u
        ELSE IF 2 * r > u THEN (q + 1) * u
        ELSE IF q % 2 = 0 THEN q * u ELSE (q + 1) * u

F32(n) == IF n >= 0 THEN F32RoundAbs(n) ELSE 0 - F32RoundAbs(0 - n)

(***************************************************************************)
(* f32 in general: [m, e] stands for m * 2^e, with                         *)
(* 2^23 <= |m| < 2^24, or m = 0 and e = 0.  Every operation answers the    *)
(* value nearest to the exact result, ties to the even significand, as     *)
(* IEEE 754 arithmetic does.  The exponent is not bounded: the quantities  *)
(* of the program stay far inside the normal range of f32.                 *)
(***************************************************************************)
FZero == [m |-> 0, e |-> 0]

RECURSIVE Pow2(_)
Pow2(k) == IF k = 0 THEN 1 ELSE 2 * Pow2(k - 1)

FAbs(n) == IF n >= 0 THEN n ELSE 0 - n

FNeg(x) == [m |-> 0 - x.m, e |-> x.e]

FWithSign(neg, x) == IF neg THEN FNeg(x) ELSE x

FShift(x, k) == IF x.m = 0 THEN x ELSE [m |-> x.m, e |-> x.e + k]

\* 0 < m < 2^24, exactly: shifted up to a 24-bit significand.
RECURSIVE FNormUp(_, _)
FNormUp(m, e) ==
    IF m >= F32Exact \div 2 THEN [m |-> m, e |-> e] ELSE FNormUp(2 * m, e - 1)

\* m with at most 24 significant bits, exactly: shifted down.
RECURSIVE FNormDown(_, _)
FNormDown(m, e) ==
    IF m < F32Exact THEN [m |-> m, e |-> e] ELSE FNormDown(m \div 2, e + 1)

\* The significand m followed by a remainder rem out of den: whether the
\* nearest value, ties to even, is the next significand.
RoundsUp(m, rem, den) == rem > den - rem \/ (rem = den - rem /\ m % 2 = 1)

FRounded(m, e, up) ==
    IF ~up THEN [m |-> m, e |-> e]
    ELSE IF m + 1 = F32Exact THEN [m |-> F32Exact \div 2, e |-> e + 1]
    ELSE [m |-> m + 1, e |-> e]

\* The quotient bits of (a + r / den) * 2^e, one by one, until a has 24.
RECURSIVE FDivLoop(_, _, _, _)
FDivLoop(a, r, den, e) ==
    IF a >= F32Exact \div 2 THEN FRounded(a, e, RoundsUp(a, r, den))
    ELSE IF r >= den - r THEN FDivLoop(2 * a + 1, r - (den - r), den, e - 1)
    ELSE FDivLoop(2 * a, 2 * r, den, e - 1)

\* The f32 nearest to p / q, for 0 < p, 0 < q and p / q < 2^24.
FOfRatPos(p, q) == FDivLoop(p \div q, p % q, q, 0)

\* How many bits the positive integer a has.
RECURSIVE BitLen(_)
BitLen(a) == IF a = 0 THEN 0 ELSE 1 + BitLen(a \div 2)

\* a as f32, for an integer a of more than 24 bits: its 24 leading bits,
\* rounded on the bits below them.
FromLong(a, u) == FRounded(a \div u, BitLen(a) - 24, RoundsUp(a \div u, a % u, u))

\* n as f32, for an integer n
FromInt(n) ==
    IF n = 0 THEN FZero
    ELSE FWithSign(n < 0,
             IF FAbs(n) < F32Exact THEN FNormUp(FAbs(n), 0)
             ELSE FromLong(FAbs(n), F32Ulp(FAbs(n))))

\* x / y, for y that is not zero
FDiv(x, y) ==
    IF x.m = 0 THEN FZero
    ELSE FWithSign((x.m < 0) # (y.m < 0),
                   FShift(FOfRatPos(FAbs(x.m), FAbs(y.m)), x.e - y.e))

\* The 48-bit product h * 2^24 + l of two significands, rounded.
FMulRound(h, l, e) ==
    IF h >= F32Exact \div 2
    THEN FRounded(h, e + 24, RoundsUp(h, l, F32Exact))
    ELSE FRounded(2 * h + l \div (F32Exact \div 2), e + 23,
                  RoundsUp(2 * h + l \div (F32Exact \div 2),
                           l % (F32Exact \div 2), F32Exact \div 2))

\* hh * 2^24 + mid * 2^12 + ll: the product of two significands from the
\* products of their 12-bit halves.
FMulParts(hh, mid, ll, e) ==
    FMulRound(hh + mid \div 4096 + ((mid % 4096) * 4096 + ll) \div F32Exact,
              ((mid % 4096) * 4096 + ll) % F32Exact, e)

FMulAbs(a, b, e) ==
    FMulParts((a \div 4096) * (b \div 4096),
              (a \div 4096) * (b % 4096) + (a % 4096) * (b \div 4096),
              (a % 4096) * (b % 4096), e)

\* x * y
FMul(x, y) ==
    IF x.m = 0 \/ y.m = 0 THEN FZero
    ELSE FWithSign((x.m < 0) # (y.m < 0), FMulAbs(FAbs(x.m), FAbs(y.m), x.e + y.e))

\* The integer s * 2^e rounded, |s| < 2^28.
FOfScaled(s, e) ==
    IF s = 0 THEN FZero
    ELSE FWithSign(s < 0,
             IF FAbs(s) < F32Exact THEN FNormUp(FAbs(s), e)
             ELSE FNormDown(F32RoundAbs(FAbs(s)), e))

\* a shifted right by d bits, a bit that was shifted out kept in the lowest
\* bit (the sticky bit).
ShiftSticky(a, d) ==
    IF a % Pow2(d) # 0 /\ (a \div Pow2(d)) % 2 = 0
    THEN a \div Pow2(d) + 1 ELSE a \div Pow2(d)

\* x + y for x.e >= y.e, neither zero: on three guard bits.
FAddOrdered(x, y, d) ==
    FOfScaled(8 * x.m + (IF y.m < 0 THEN 0 - ShiftSticky(8 * FAbs(y.m), d)
                                    ELSE ShiftSticky(8 * FAbs(y.m), d)),
              x.e - 3)

\* x + y
FAdd(x, y) ==
    IF x.m = 0 THEN y
    ELSE IF y.m = 0 THEN x
    ELSE IF x.e >= y.e
    THEN FAddOrdered(x, y, IF x.e - y.e > 28 THEN 28 ELSE x.e - y.e)
    ELSE FAddOrdered(y, x, IF y.e - x.e > 28 THEN 28 ELSE y.e - x.e)

\* x - y
FSub(x, y) == FAdd(x, FNeg(y))

\* `x as i32`: towards zero, and i32::MAX or i32::MIN for an x out of the
\* range of i32 (|m| >= 2^23, so from e = 8 on |x| >= 2^31)
FTrunc(x) ==
    IF x.e >= 8 THEN (IF x.m > 0 THEN I32Max ELSE (0 - I32Max) - 1)
    ELSE IF x.e >= 0 THEN x.m * Pow2(x.e)
    ELSE IF 0 - x.e >= 24 THEN 0
    ELSE IF x.m >= 0 THEN x.m \div Pow2(0 - x.e)
    ELSE 0 - ((0 - x.m) \div Pow2(0 - x.e))

\* `x.round() as i32`: to the nearest integer, halves away from zero, and
\* i32::MAX or i32::MIN for an x out of the range of i32
FRoundInt(x) ==
    IF x.e >= 8 THEN (IF x.m > 0 THEN I32Max ELSE (0 - I32Max) - 1)
    ELSE IF x.e >= 0 THEN x.m * Pow2(x.e)
    ELSE IF 0 - x.e >= 25 THEN 0
    ELSE IF x.m >= 0 THEN (x.m + Pow2(0 - x.e - 1)) \div Pow2(0 - x.e)
    ELSE 0 - ((0 - x.m + Pow2(0 - x.e - 1)) \div Pow2(0 - x.e))

(***************************************************************************)
(* is_ccw_wind (mesh.rs 150-158): the sign of the shoelace sum, which is   *)
(* accumulated in f32, edge by edge: sum += current.0 * next.1 -           *)
(* next.0 * current.1.                                                     *)
(***************************************************************************)
RECURSIVE ShoelaceFrom(_, _, _)
ShoelaceFrom(vertices, index, sum) ==
    IF index > Len(vertices) THEN sum
    ELSE LET current == vertices[index]
             next    == vertices[(index % Len(vertices)) + 1]
         IN  ShoelaceFrom(vertices, index + 1,
                 F32(sum + F32(F32(current[1] * next[2]) - F32(next[1] * current[2]))))

ShoelaceSum(vertices) == ShoelaceFrom(vertices, 1, 0)

is_ccw_wind(vertices) == ShoelaceSum(vertices) >= 0

(***************************************************************************)
(* GlyphVertex as triangulate fills it (mesh.rs 84-89, 95-100).  The color *)
(* field is the same constant in every vertex and is left out.             *)
(***************************************************************************)
FlatVertex(p) ==
    [position |-> <<p[1], p[2], 0>>, uv |-> <<0, 0>>, metadata |-> 0]

CurveUV == << <<0, 0>>, <<1, 0>>, <<2, 2>> >>

CurveVertexMutNoConcavityBit(p, index, is_inverse) ==
    [position |-> <<p[1], p[2], 0>>, uv |-> CurveUV[index], metadata |-> 2]

CurveVertex(p, index, is_inverse) ==
    [position |-> <<p[1], p[2], 0>>,
     uv       |-> CurveUV[index],
     metadata |-> 2 + (IF is_inverse THEN 1 ELSE 0)]

(***************************************************************************)
(* earcutr::earcut (mesh.rs 74-76) is a library call.  It answers Err, or  *)
(* Ok with a list of triangles over the points 0 .. n-1 of the group it    *)
(* was given.  The answers the model lets it give for n points: Err, no    *)
(* triangle, the last three points, and the fan 0,i,i+1 over all points.   *)
(***************************************************************************)
EarcutModes == {"err", "empty", "last", "fan"}

RECURSIVE Fan(_, _)
Fan(n, i) == IF i + 1 > n - 1 THEN <<>> ELSE <<0, i, i + 1>> \o Fan(n, i + 1)

EarcutAnswer(mode, n) ==
    IF mode = "err" THEN [err |-> TRUE, ok |-> <<>>]
    ELSE IF n < 3 \/ mode = "empty" THEN [err |-> FALSE, ok |-> <<>>]
    ELSE IF mode = "last" THEN [err |-> FALSE, ok |-> <<n - 3, n - 2, n - 1>>]
    ELSE [err |-> FALSE, ok |-> Fan(n, 1)]

(***************************************************************************)
(* triangulate, "check for holes" (mesh.rs 49-52).                         *)
(***************************************************************************)
is_polygon_hole(polys, rw) ==
    [index \in 1..Len(polys) |-> (is_ccw_wind(polys[index]) # rw)]

(***************************************************************************)
(* triangulate, "Group Polygons" (mesh.rs 55-63).  A hole met while        *)
(* polygon_with_holes is empty is last_mut().unwrap() on None: a panic.    *)
(***************************************************************************)
RECURSIVE GroupFrom(_, _, _, _)
GroupFrom(polys, holes, index, polygon_with_holes) ==
    IF index > Len(polys) THEN [panic |-> FALSE, groups |-> polygon_with_holes]
    ELSE IF holes[index]
         THEN IF polygon_with_holes = <<>>
              THEN [panic |-> TRUE, groups |-> <<>>]
              ELSE LET k == Len(polygon_with_holes)
                   IN  GroupFrom(polys, holes, index + 1,
                           [polygon_with_holes EXCEPT
                               ![k] = Append(@, polys[index])])
         ELSE GroupFrom(polys, holes, index + 1,
                        Append(polygon_with_holes, <<polys[index]>>))

GroupPolygons(polys, rw) ==
    GroupFrom(polys, is_polygon_hole(polys, rw), 1, <<>>)

(***************************************************************************)
(* triangulate, the loop over the shape groups (mesh.rs 69-90).            *)
(* earcutr::flatten lays the rings of a group end to end; the indices      *)
(* earcut answers are offset by vertices.len() and cast to u16.            *)
(***************************************************************************)
OffsetIndexMutShift1(t, len) == (len + t + 1) % U16Mod

OffsetIndex(t, len) == (len + t) % U16Mod

RECURSIVE TriangulateGroups(_, _, _, _, _)
TriangulateGroups(groups, modes, g, vertices, indices) ==
    IF g > Len(groups) THEN [panic |-> FALSE, vertices |-> vertices, indices |-> indices]
    ELSE LET points == Flatten(groups[g])
             answer == EarcutAnswer(modes[g], Len(points))
         IN  IF answer.err
             THEN [panic |-> TRUE, vertices |-> vertices, indices |-> indices]
             ELSE TriangulateGroups(groups, modes, g + 1,
                     vertices \o [i \in 1..Len(points) |-> FlatVertex(points[i])],
                     indices \o [i \in 1..Len(answer.ok) |->
                                    OffsetIndex(answer.ok[i], Len(vertices))])

(***************************************************************************)
(* triangulate, the loop over bezier_polygons (mesh.rs 91-101).            *)
(* index = vertices.len() as u16 truncates; index + 1 and index + 2 are    *)
(* u16 additions: with overflow checks (checks) one that overflows panics, *)
(* without them it wraps.                                                  *)
(***************************************************************************)
CurveIndicesMutOneBased(len, checks) ==
    LET index == len % U16Mod
    IN  [panic |-> checks /\ index + 3 >= U16Mod,
         ok |-> <<(index + 1) % U16Mod, (index + 2) % U16Mod, (index + 3) % U16Mod>>]

CurveIndices(len, checks) ==
    LET index == len % U16Mod
    IN  [panic |-> checks /\ index + 2 >= U16Mod,
         ok |-> <<index, (index + 1) % U16Mod, (index + 2) % U16Mod>>]

RECURSIVE AppendCurves(_, _, _, _, _)
AppendCurves(bez, b, vertices, indices, checks) ==
    IF b > Len(bez) THEN [panic |-> FALSE, vertices |-> vertices, indices |-> indices]
    ELSE IF CurveIndices(Len(vertices), checks).panic
    THEN [panic |-> TRUE, vertices |-> vertices, indices |-> indices]
    ELSE AppendCurves(bez, b + 1,
            vertices \o [i \in 1..3 |-> CurveVertex(bez[b].points[i], i, bez[b].is_inverse)],
            indices \o CurveIndices(Len(vertices), checks).ok, checks)

(***************************************************************************)
(* triangulate (mesh.rs 47-104).  outcome is "ok", or the unwrap or the    *)
(* u16 addition that panicked.                                             *)
(***************************************************************************)
triangulate(polys, bez, rw, modes, checks) ==
    LET grouped == GroupPolygons(polys, rw)
    IN  IF grouped.panic
        THEN [outcome |-> "panic_hole_first", vertices |-> <<>>, indices |-> <<>>,
              groups |-> <<>>]
        ELSE LET flat == TriangulateGroups(grouped.groups, modes, 1, <<>>, <<>>)
             IN  IF flat.panic
                 THEN [outcome |-> "panic_earcut", vertices |-> <<>>, indices |-> <<>>,
                       groups |-> grouped.groups]
                 ELSE LET all == AppendCurves(bez, 1, flat.vertices, flat.indices,
                                              checks)
                      IN  IF all.panic
                          THEN [outcome |-> "panic_overflow", vertices |-> <<>>,
                                indices |-> <<>>, groups |-> grouped.groups]
                          ELSE [outcome |-> "ok", vertices |-> all.vertices,
                                indices |-> all.indices, groups |-> grouped.groups]

(***************************************************************************)
(* The OutlineBuilder callbacks (mesh.rs 107-148) as functions of the      *)
(* builder's fields.  Each is called with a current ring: the actions      *)
(* below guard the unwrap.                                                 *)
(***************************************************************************)
PushPoint(polys, p) == [polys EXCEPT ![Len(polys)] = Append(@, p)]

LastPoint(polys) == Last(Last(polys))

\* (x1 + (x2 - x1) / 2.0, y1 + (y2 - y1) / 2.0), mesh.rs 128
ImpliedPointMutFirstControl(c1, c2) == c1

ImpliedPoint(c1, c2) ==
    <<c1[1] + (c2[1] - c1[1]) \div 2, c1[2] + (c2[2] - c1[2]) \div 2>>

BezierEntry(points, rw) ==
    [points |-> points, is_inverse |-> (is_ccw_wind(points) # rw)]

\* mesh.rs 108-111
MoveToPolys(polys, p) == Append(polys, <<p>>)

\* mesh.rs 113-115
LineToPolys(polys, p) == PushPoint(polys, p)

\* mesh.rs 117-125
QuadToPolysMutNeverPushesControl(polys, rw, c, p) == PushPoint(polys, p)

QuadToPolys(polys, rw, c, p) ==
    LET entry == BezierEntry(<<LastPoint(polys), c, p>>, rw)
        withC == IF entry.is_inverse THEN PushPoint(polys, c) ELSE polys
    IN  PushPoint(withC, p)

QuadToBezierMutSkipsConvex(polys, bez, rw, c, p) ==
    LET entry == BezierEntry(<<LastPoint(polys), c, p>>, rw)
    IN  IF entry.is_inverse THEN Append(bez, entry) ELSE bez

QuadToBezier(polys, bez, rw, c, p) ==
    Append(bez, BezierEntry(<<LastPoint(polys), c, p>>, rw))

\* mesh.rs 127-143
CurveToPolys(polys, rw, c1, c2, p) ==
    LET i      == ImpliedPoint(c1, c2)
        first  == BezierEntry(<<LastPoint(polys), c1, i>>, rw)
        second == BezierEntry(<<i, c2, p>>, rw)
        a == IF first.is_inverse THEN PushPoint(polys, c1) ELSE polys
        b == PushPoint(a, i)
        c == IF second.is_inverse THEN PushPoint(b, c2) ELSE b
    IN  PushPoint(c, p)

CurveToBezier(polys, bez, rw, c1, c2, p) ==
    LET i == ImpliedPoint(c1, c2)
    IN  bez \o << BezierEntry(<<LastPoint(polys), c1, i>>, rw),
                  BezierEntry(<<i, c2, p>>, rw) >>

(***************************************************************************)
(* FontSize (text.rs 13-17): the unit and the usize.  The usize is kept as *)
(* two words, hi * 2^31 + n with 0 <= n < 2^31, so that the sizes from     *)
(* 2^31 on, which `as i32` does not leave as they are, are sizes of the    *)
(* model (up to 2^62).  TextMeshBuilder.font_size, a pixel count in        *)
(* mesh.rs, is kept as Px(n).                                              *)
(***************************************************************************)
Px(n) == [unit |-> "Px", n |-> n, hi |-> 0]
Pt(n) == [unit |-> "Pt", n |-> n, hi |-> 0]

\* FontSize::Px(hi * 2^31 + n)
PxWide(hi, n) == [unit |-> "Px", n |-> n, hi |-> hi]

(***************************************************************************)
(* Vec<GlyphVertex> in the layout.  A GlyphMesh here is its vertex count   *)
(* and its indices; the vertices TextMeshBuilder::build emits are kept as  *)
(* runs, one per glyph mesh: how many vertices, which (mesh, data) pair    *)
(* they came from, and the cursor they were translated by (mesh.rs         *)
(* 205-206).  The rest of the position arithmetic is TransformPosition.    *)
(***************************************************************************)
RECURSIVE VLen(_)
VLen(runs) == IF runs = <<>> THEN 0 ELSE Head(runs).count + VLen(Tail(runs))

GlyphMeshOf(nverts, indices) == [nverts |-> nverts, indices |-> indices]

\* `*i + (vertices.len() as u16)`, mesh.rs 203: a u16 addition.
AddU16(a, b) == (a + b) % U16Mod

AddU16Overflows(a, b) == a + b >= U16Mod

\* cursor.0 += data.x_advance as f32; cursor.1 += data.y_advance as f32
\* (mesh.rs 217-218): outside the `if let`, so for every pair.
AdvanceCursorMutOnlyPresent(cursor, data, present) ==
    IF present
    THEN <<F32(cursor[1] + F32(data.x_advance)), F32(cursor[2] + F32(data.y_advance))>>
    ELSE cursor

AdvanceCursor(cursor, data, present) ==
    <<F32(cursor[1] + F32(data.x_advance)), F32(cursor[2] + F32(data.y_advance))>>

(***************************************************************************)
(* TextMeshBuilder::build (mesh.rs 196-225), the loop from pair k on.      *)
(* checks is the build profile: with overflow checks a u16 addition that   *)
(* overflows panics, without them it wraps.                                *)
(***************************************************************************)
RECURSIVE TextBuildFrom(_, _, _, _, _, _)
TextBuildFrom(md, k, vertices, indices, cursor, checks) ==
    IF k > Len(md)
    THEN [outcome |-> "ok", vertices |-> vertices, indices |-> indices, cursor |-> cursor]
    ELSE LET mesh == md[k][1]
             data == md[k][2]
             base == VLen(vertices) % U16Mod
         IN  IF IsSome(mesh)
             THEN IF checks /\ \E i \in 1..Len(mesh.val.indices) :
                                   AddU16Overflows(mesh.val.indices[i], base)
                  THEN [outcome |-> "panic_overflow", vertices |-> vertices,
                        indices |-> indices, cursor |-> cursor]
                  ELSE TextBuildFrom(md, k + 1,
                          Append(vertices, [count |-> mesh.val.nverts, src |-> k,
                                            cursor |-> cursor]),
                          indices \o [i \in 1..Len(mesh.val.indices) |->
                                         AddU16(mesh.val.indices[i], base)],
                          AdvanceCursor(cursor, data, TRUE), checks)
             ELSE TextBuildFrom(md, k + 1, vertices, indices,
                                AdvanceCursor(cursor, data, FALSE), checks)

TextBuildMutPlaceholder(md, checks) ==
    TextBuildFrom(IF md = <<>>
                  THEN << <<Some(GlyphMeshOf(3, <<0, 1, 2>>)),
                            [x_advance |-> 0, y_advance |-> 0]>> >>
                  ELSE md,
                  1, <<>>, <<>>, <<0, 0>>, checks)

TextBuild(md, checks) == TextBuildFrom(md, 1, <<>>, <<>>, <<0, 0>>, checks)

NoTextMesh == [outcome |-> "none", vertices |-> <<>>, indices |-> <<>>, cursor |-> <<0, 0>>]

(***************************************************************************)
(* TextMeshBuilder::new (mesh.rs 172-178).                                 *)
(***************************************************************************)
TextNewFields ==
    /\ mesh_data = <<>>
    /\ font_size = Px(500)
    /\ position = <<100, 100>>
    /\ tpc = "new"
    /\ text_mesh = NoTextMesh

TextIdle == TextNewFields /\ overflow_checks = FALSE

\* The (Option<GlyphMesh>, GlyphData) pairs add is called with.  The large
\* mesh stands for the vertex counts that long runs of glyphs reach.
TextMeshes ==
    { NoneVal,
      Some(GlyphMeshOf(3, <<0, 1, 2>>)),
      Some(GlyphMeshOf(65534, <<0, 1, 65533>>)) }

TextAdvances ==
    { [x_advance |-> 600, y_advance |-> 0],
      [x_advance |-> 1, y_advance |-> 0 - 7],
      [x_advance |-> 16777216, y_advance |-> 0] }

\* mesh.rs 191-194
TextAdd(mesh, data) ==
    /\ tpc = "new"
    /\ Len(mesh_data) < MaxGlyphs
    /\ mesh_data' = Append(mesh_data, <<mesh, data>>)
    /\ UNCHANGED <<font_size, position, tpc, text_mesh, overflow_checks, gvars, svars, rvars>>

\* mesh.rs 196-225
TextBuildStep ==
    /\ tpc = "new"
    /\ LET r == TextBuild(mesh_data, overflow_checks)
       IN  /\ text_mesh' = r
           /\ tpc' = IF r.outcome = "ok" THEN "done" ELSE r.outcome
    /\ UNCHANGED <<mesh_data, font_size, position, overflow_checks, gvars, svars, rvars>>

(***************************************************************************)
(* Fractions [n, d] with d > 0, in lowest terms: the exact value of an f32 *)
(* (an integer over a power of two), and the exact quantities the f32      *)
(* results are compared with.                                              *)
(***************************************************************************)
RECURSIVE GCD(_, _)
GCD(a, b) == IF b = 0 THEN a ELSE GCD(b, a % b)

Rat(n, d) ==
    LET g == GCD(IF n >= 0 THEN n ELSE 0 - n, d)
    IN  [n |-> IF n >= 0 THEN n \div g ELSE 0 - ((0 - n) \div g), d |-> d \div g]

\* a * b, the common factors taken out before the products are formed.
RatMul(a, b) ==
    Rat((a.n \div GCD(FAbs(a.n), b.d)) * (b.n \div GCD(FAbs(b.n), a.d)),
        (a.d \div GCD(FAbs(b.n), a.d)) * (b.d \div GCD(FAbs(a.n), b.d)))

\* The exact value of the f32 x (for 2^-30 <= |x| < 2^31, or 0).
ToRat(x) ==
    IF x.e >= 0 THEN Rat(x.m * Pow2(x.e), 1) ELSE Rat(x.m, Pow2(0 - x.e))

\* The f32 nearest to the fraction q (for |q| < 2^24).
FOfRat(q) ==
    IF q.n = 0 THEN FZero ELSE FWithSign(q.n < 0, FOfRatPos(FAbs(q.n), q.d))

\* The literal 1.254 of text.rs 102 and mesh.rs 208-209, as the f32 it is.
EmCorrection == FOfRatPos(1254, 1000)

\* Integer division as Rust's `/` on i32: towards zero.
TruncDiv(a, b) == IF a >= 0 THEN a \div b ELSE 0 - ((0 - a) \div b)

\* `q as i32` for an f32 q kept as a fraction, which is less than 2^31:
\* towards zero.
TruncRat(q) == TruncDiv(q.n, q.d)

\* `x as i32` for the usize x = hi * 2^31 + n (text.rs 31): the low 32 bits
\* of x, read as a two's-complement number.
UsizeAsI32(hi, n) == IF hi % 2 = 0 THEN n ELSE (n - I32Max) - 1

\* `x as f32` for the usize x = hi * 2^31 + n (text.rs 22, 23, 32; mesh.rs
\* 208): the nearest f32, ties to even.  From 2^31 on the significand is
\* the 24 leading bits of x and s bits are rounded away: those of n and,
\* for s > 31, the low s - 31 bits of hi.
UsizeAsF32(hi, n) ==
    IF hi = 0 THEN FromInt(n)
    ELSE LET s == BitLen(hi) + 7
         IN  IF s <= 31
             THEN LET half == Pow2(s - 1)
                      q    == (n \div half) \div 2
                      m    == hi * Pow2(31 - s) + q
                      r    == n - (q * half) * 2
                  IN  FRounded(m, s, r > half \/ (r = half /\ m % 2 = 1))
             ELSE LET half == Pow2(s - 32)
                      m    == hi \div (2 * half)
                      r    == hi % (2 * half)
                  IN  FRounded(m, s, \/ r > half
                                     \/ r = half /\ (n > 0 \/ m % 2 = 1))

\* Into<f32> for FontSize (text.rs 19-26): x as f32, and (x as f32 / 72.0) * 150.0
FontSizeInto(fs) ==
    IF fs.unit = "Px" THEN UsizeAsF32(fs.hi, fs.n)
    ELSE FMul(FDiv(UsizeAsF32(fs.hi, fs.n), FromInt(72)), FromInt(150))

\* The same as a fraction (for a size below 2^31 pixels).
FontSizeF32(fs) == ToRat(FontSizeInto(fs))

\* Into<i32> for FontSize (text.rs 28-35): x as i32, and
\* ((x as f32 / 72.0) * 150.0).round() as i32
FontSizeI32MutTruncates(fs) ==
    IF fs.unit = "Px" THEN UsizeAsI32(fs.hi, fs.n)
    ELSE FTrunc(FMul(FDiv(UsizeAsF32(fs.hi, fs.n), FromInt(72)), FromInt(150)))

FontSizeI32(fs) ==
    IF fs.unit = "Px" THEN UsizeAsI32(fs.hi, fs.n)
    ELSE FRoundInt(FMul(FDiv(UsizeAsF32(fs.hi, fs.n), FromInt(72)), FromInt(150)))

(***************************************************************************)
(* TextMeshBuilder::build, the arithmetic on one coordinate of a vertex    *)
(* (mesh.rs 197, 205-213).  axis 1 is position[0] with TEXTURE_SIZE.0,     *)
(* axis 2 is position[1] with TEXTURE_SIZE.1.  self.font_size is a usize,  *)
(* kept as Px(n).                                                          *)
(***************************************************************************)
\* main.rs 6: const TEXTURE_SIZE: (u32, u32) = (1920u32, 1080u32)
TEXTURE_SIZE == <<1920, 1080>>

\* mesh.rs 197: size_factor = 1.0 / face.height() as f32
SizeFactor(f) == FDiv(FromInt(1), FromInt(f.height))

\* mesh.rs 205-206: v.position[i] += cursor.i
Translate(v, cursor, axis) == F32(v[axis] + cursor[axis])

\* mesh.rs 208-209: v.position[i] * size_factor * self.font_size as f32 * 1.254
Scale(x, f, fs) ==
    FMul(FMul(FMul(x, SizeFactor(f)), UsizeAsF32(fs.hi, fs.n)), EmCorrection)

\* mesh.rs 210-211: v.position[i] / TEXTURE_SIZE.i as f32 * 2.0 - 1.0
Normalize(x, axis) ==
    FSub(FMul(FDiv(x, FromInt(TEXTURE_SIZE[axis])), FromInt(2)), FromInt(1))

\* mesh.rs 212-213: (self.position.i as f32 / TEXTURE_SIZE.i as f32) * 2.0
OriginOffset(origin, axis) ==
    FMul(FDiv(FromInt(origin[axis]), FromInt(TEXTURE_SIZE[axis])), FromInt(2))

VertexPositionMutScaleBeforeTranslate(v, cursor, f, fs, origin, axis) ==
    FAdd(Normalize(FAdd(Scale(FromInt(v[axis]), f, fs), FromInt(cursor[axis])), axis),
         OriginOffset(origin, axis))

\* mesh.rs 205-213, one coordinate of one vertex of a present glyph mesh
VertexPosition(v, cursor, f, fs, origin, axis) ==
    FAdd(Normalize(Scale(FromInt(Translate(v, cursor, axis)), f, fs), axis),
         OriginOffset(origin, axis))

\* mesh.rs 180-183
TextWithFontSize(n) ==
    /\ tpc = "new"
    /\ font_size' = Px(n)
    /\ UNCHANGED <<mesh_data, position, tpc, text_mesh, overflow_checks,
                   gvars, svars, rvars>>

\* mesh.rs 185-189
TextWithPosition(x, y) ==
    /\ tpc = "new"
    /\ position' = <<x, y>>
    /\ UNCHANGED <<mesh_data, font_size, tpc, text_mesh, overflow_checks,
                   gvars, svars, rvars>>

\* What build is given in the placement runs: faces whose height (ascender
\* minus descender) is and is not their units per em, font sizes, origins,
\* meshes and advances, and the local positions a glyph's vertices have.
PlaceFaces ==
    { [glyf |-> TRUE, height |-> 1000, units_per_em |-> 1000],
      [glyf |-> TRUE, height |-> 1200, units_per_em |-> 1000] }

PlaceFontSizes == {24, 200}

PlaceOrigins == { <<0, 0>>, <<0 - 30, 45>> }

PlaceMeshes == { NoneVal, Some(GlyphMeshOf(3, <<0, 1, 2>>)) }

PlaceAdvances ==
    { [x_advance |-> 600, y_advance |-> 0], [x_advance |-> 0 - 50, y_advance |-> 75] }

PlaceVertices == { <<0, 0>>, <<500, 700>>, <<0 - 20, 1000>> }

(***************************************************************************)
(* The font face as generate_text_mesh reads it: whether it has a glyf     *)
(* table, its height, and per glyph id the outline outline_glyph walks     *)
(* (None when the glyph has none) with the answer earcut gives on it.      *)
(*   glyph 0: no outline (a space);                                        *)
(*   glyph 1: one clockwise triangle, which earcut fills;                  *)
(*   glyph 2: one clockwise triangle on which earcut answers Err;          *)
(*   glyph 3: a single point, a ring whose shoelace sum is 0.              *)
(***************************************************************************)
Ev(op, c1, c2, p) == [op |-> op, c1 |-> c1, c2 |-> c2, p |-> p]

TriangleOutline ==
    << Ev("move_to", <<0, 0>>, <<0, 0>>, <<0, 0>>),
       Ev("line_to", <<0, 0>>, <<0, 0>>, <<0, 4>>),
       Ev("line_to", <<0, 0>>, <<0, 0>>, <<4, 0>>) >>

FaceOutline(glyph_id) ==
    IF glyph_id = 0 THEN NoneVal
    ELSE IF glyph_id = 1 THEN Some([events |-> TriangleOutline, earcut |-> "fan"])
    ELSE IF glyph_id = 2 THEN Some([events |-> TriangleOutline, earcut |-> "err"])
    ELSE Some([events |-> << Ev("move_to", <<0, 0>>, <<0, 0>>, <<0, 0>>) >>,
               earcut |-> "fan"])

\* face.outline_glyph(glyph_id, &mut self), mesh.rs 35: the callbacks in order.
RECURSIVE FeedOutline(_, _, _, _, _)
FeedOutline(events, k, polys, bez, rw) ==
    IF k > Len(events) THEN [polygons |-> polys, bezier_polygons |-> bez]
    ELSE LET e == events[k]
         IN  IF e.op = "move_to"
             THEN FeedOutline(events, k + 1, MoveToPolys(polys, e.p), bez, rw)
             ELSE IF e.op = "line_to"
             THEN FeedOutline(events, k + 1, LineToPolys(polys, e.p), bez, rw)
             ELSE IF e.op = "quad_to"
             THEN FeedOutline(events, k + 1, QuadToPolys(polys, rw, e.c1, e.p),
                              QuadToBezier(polys, bez, rw, e.c1, e.p), rw)
             ELSE FeedOutline(events, k + 1, CurveToPolys(polys, rw, e.c1, e.c2, e.p),
                              CurveToBezier(polys, bez, rw, e.c1, e.c2, e.p), rw)

\* GlyphMeshBuilder::new().build(face, glyph_id) (mesh.rs 28-45, text.rs 98):
\* outcome "ok" with Option<GlyphMesh>, or the panic.
GlyphMeshBuilderBuildMutIgnoresNone(f, glyph_id) ==
    LET outline == FaceOutline(glyph_id)
        rw == ~f.glyf
        events == IF IsSome(outline) THEN outline.val.events ELSE <<>>
        mode == IF IsSome(outline) THEN outline.val.earcut ELSE "fan"
        b == FeedOutline(events, 1, <<>>, <<>>, rw)
        r == triangulate(b.polygons, b.bezier_polygons, rw,
                 [g \in 1..Len(b.polygons) |-> mode], overflow_checks)
    IN  IF r.outcome = "ok"
        THEN [outcome |-> "ok",
              mesh |-> Some(GlyphMeshOf(Len(r.vertices), r.indices))]
        ELSE [outcome |-> r.outcome, mesh |-> NoneVal]

\* mesh.rs 36: self.triangulate() on the builder the callbacks left.
TriangulateBuilder(b, rw, earcut) ==
    triangulate(b.polygons, b.bezier_polygons, rw,
                [g \in 1..Len(b.polygons) |-> earcut], overflow_checks)

\* mesh.rs 37-44: Some(GlyphMesh { vertices, indices })
BuiltMesh(r) ==
    IF r.outcome = "ok"
    THEN [outcome |-> "ok", mesh |-> Some(GlyphMeshOf(Len(r.vertices), r.indices))]
    ELSE [outcome |-> r.outcome, mesh |-> NoneVal]

GlyphMeshBuilderBuild(f, glyph_id) ==
    LET outline == FaceOutline(glyph_id)
        rw == ~f.glyf
    IN  IF ~IsSome(outline) THEN [outcome |-> "ok", mesh |-> NoneVal]
        ELSE BuiltMesh(TriangulateBuilder(
                 FeedOutline(outline.val.events, 1, <<>>, <<>>, rw),
                 rw, outline.val.earcut))

(***************************************************************************)
(* generate_text_mesh, the loop over the shaped glyphs (text.rs 95-100).   *)
(* The text of a Span is kept as what shape_glyph_data answers for it.     *)
(***************************************************************************)
RECURSIVE MeshDataFrom(_, _, _, _, _)
RECURSIVE MeshDataPush(_, _, _, _, _, _)
MeshDataFrom(glyph_data, k, f, md, width) ==
    IF k > Len(glyph_data) THEN [outcome |-> "ok", mesh_data |-> md, width |-> width]
    ELSE MeshDataPush(glyph_data, k, f, md,
                      F32(width + F32(glyph_data[k].x_advance)),
                      GlyphMeshBuilderBuild(f, glyph_data[k].glyph_id))

\* text.rs 96-99: width += x_advance, then the mesh build returned is pushed
\* with its glyph's data; a panic in build ends the loop.
MeshDataPush(glyph_data, k, f, md, w, r) ==
    IF r.outcome # "ok"
    THEN [outcome |-> r.outcome, mesh_data |-> md, width |-> w]
    ELSE MeshDataFrom(glyph_data, k + 1, f, Append(md, <<r.mesh, glyph_data[k]>>), w)

\* text.rs 102: width / height() as f32 * Into<f32>(font_size) * 1.254, each
\* an f32 operation, left to right; the f32 answered is kept as a fraction
\* (for a width below 2^31).
MeasuredWidth(sum, f, fs) ==
    ToRat(FMul(FMul(FDiv(FromInt(sum), FromInt(f.height)), FontSizeInto(fs)),
               EmCorrection))

(***************************************************************************)
(* generate_text_mesh, "Align text" (text.rs 103-127).                     *)
(***************************************************************************)
AlignHMutNoHalving(x, h_align, box_w, width) ==
    IF h_align = "Start" THEN x
    ELSE IF h_align = "Middle"
    THEN (x + box_w) - TruncDiv(TruncRat(width), 2)
    ELSE (x + box_w) - TruncRat(width)

AlignH(x, h_align, box_w, width) ==
    IF h_align = "Start" THEN x
    ELSE IF h_align = "Middle"
    THEN (x + TruncDiv(box_w, 2)) - TruncDiv(TruncRat(width), 2)
    ELSE (x + box_w) - TruncRat(width)

AlignVMutUsesWidth(y, v_align, box_h, fs, width) ==
    IF v_align = "Start" THEN y
    ELSE IF v_align = "Middle"
    THEN (y + TruncDiv(box_h, 2)) - TruncDiv(TruncRat(width), 2)
    ELSE (y + box_h) - TruncRat(width)

AlignV(y, v_align, box_h, fs, width) ==
    IF v_align = "Start" THEN y
    ELSE IF v_align = "Middle"
    THEN (y + TruncDiv(box_h, 2)) - TruncDiv(FontSizeI32(fs), 2)
    ELSE (y + box_h) - FontSizeI32(fs)

TextPosition(sp, width) ==
    IF IsSome(sp.size)
    THEN << AlignH(sp.position[1], sp.h_align, sp.size.val[1], width),
            AlignV(sp.position[2], sp.v_align, sp.size.val[2], sp.font_size, width) >>
    ELSE sp.position

(***************************************************************************)
(* A color, [f32; 4]: its four components (c) and which of them are NaN    *)
(* (nan).  == on f32 is false whenever either side is NaN.                 *)
(***************************************************************************)
Color(r, g, b, a) == [c |-> <<r, g, b, a>>, nan |-> {}]

ColorEq(x, y) == x.nan = {} /\ y.nan = {} /\ x.c = y.c

(***************************************************************************)
(* Span::new and the with_* builders (text.rs 50-86).                      *)
(***************************************************************************)
SpanNew(text, x, y) ==
    [text      |-> text,
     position  |-> <<x, y>>,
     font_size |-> Pt(12),
     size      |-> NoneVal,
     v_align   |-> "Start",
     h_align   |-> "Start",
     color     |-> Color(0, 0, 0, 1)]

Alignment == {"Start", "Middle", "End"}

\* What shaping answers per glyph: id and advances (offsets are not read).
ShapedGlyphs ==
    { [glyph_id |-> 0, x_advance |-> 250, y_advance |-> 0],
      [glyph_id |-> 1, x_advance |-> 600, y_advance |-> 0],
      [glyph_id |-> 1, x_advance |-> 0 - 300, y_advance |-> 40],
      [glyph_id |-> 2, x_advance |-> 600, y_advance |-> 0],
      [glyph_id |-> 3, x_advance |-> 600, y_advance |-> 0] }

Texts == UNION { [1..n -> ShapedGlyphs] : n \in 0..MaxTextLen }

SpanPositions == { <<100, 100>>, <<0 - 3, 5>> }

BoxSizes == { <<7, 40>>, <<40, 7>> }

FontSizes == { Px(24), Pt(10) }

\* The font sizes, texts and boxes of the runs that exercise the two
\* conversions of FontSize: a point size that converts to a whole number of
\* pixels (12), to a half (6), to neither (10, 1) and to more pixels than
\* an i32 holds (3 * 2^29 points), and a pixel size that f32 does not hold
\* (2^24 + 1), that i32 does not hold (2^31 + 1000) and that is past 32 bits
\* (2^32 + 24).
SizeFontSizes ==
    { Px(24), Px(16777217), PxWide(1, 1000), PxWide(2, 24),
      Pt(1), Pt(6), Pt(10), Pt(1610612736) }

SizeTexts == { <<>>, << [glyph_id |-> 0, x_advance |-> 250, y_advance |-> 0] >> }

SizeBoxes == { <<7, 40>> }

Faces == { [glyf |-> TRUE, height |-> 1000] }

\* The colors with_color is called with.
WithColors == { Color(0, 0, 0, 1), Color(1, 0, 0, 1) }

SpanIdle ==
    /\ span = SpanNew(<<>>, 0, 0)
    /\ face = [glyf |-> TRUE, height |-> 1000]
    /\ spc = "idle"
    /\ measured = Rat(0, 1)

with_size(width, height) ==
    /\ spc = "config"
    /\ span' = [span EXCEPT !.size = Some(<<width, height>>)]
    /\ UNCHANGED <<face, spc, measured, gvars, tvars, rvars>>

with_font_size(fs) ==
    /\ spc = "config"
    /\ span' = [span EXCEPT !.font_size = fs]
    /\ UNCHANGED <<face, spc, measured, gvars, tvars, rvars>>

with_v_align(v_align) ==
    /\ spc = "config"
    /\ span' = [span EXCEPT !.v_align = v_align]
    /\ UNCHANGED <<face, spc, measured, gvars, tvars, rvars>>

with_h_align(h_align) ==
    /\ spc = "config"
    /\ span' = [span EXCEPT !.h_align = h_align]
    /\ UNCHANGED <<face, spc, measured, gvars, tvars, rvars>>

\* text.rs 83-86
with_color(color) ==
    /\ spc = "config"
    /\ span' = [span EXCEPT !.color = color]
    /\ UNCHANGED <<face, spc, measured, gvars, tvars, rvars>>

(***************************************************************************)
(* text.rs 129 hands the Span's FontSize to with_font_size, which mesh.rs  *)
(* 180 declares over a usize: the conversion between the two is not in the *)
(* sources.  The builder is given the font size in pixels (spec 4.4), as   *)
(* the whole number of pixels text.rs 28-35 makes of a FontSize.           *)
(***************************************************************************)
HandedFontSize(fs) == IF fs.unit = "Px" THEN fs ELSE Px(FontSizeI32(fs))

(***************************************************************************)
(* Span::generate_text_mesh (text.rs 92-131).  A panic while a glyph mesh  *)
(* is built leaves the pairs added so far and no TextMesh.                 *)
(***************************************************************************)
generate_text_mesh ==
    /\ spc = "config"
    /\ \E g \in {MeshDataFrom(span.text, 1, face, <<>>, 0)} :
           IF g.outcome # "ok"
           THEN /\ spc' = g.outcome
                /\ mesh_data' = g.mesh_data
                /\ UNCHANGED <<measured, position, font_size, text_mesh, tpc>>
           ELSE LET width == MeasuredWidth(g.width, face, span.font_size)
                    r == TextBuild(g.mesh_data, overflow_checks)
                IN  /\ measured' = width
                    /\ mesh_data' = g.mesh_data
                    /\ position' = TextPosition(span, width)
                    /\ font_size' = HandedFontSize(span.font_size)
                    /\ text_mesh' = r
                    /\ tpc' = IF r.outcome = "ok" THEN "done" ELSE r.outcome
                    /\ spc' = IF r.outcome = "ok" THEN "done" ELSE r.outcome
    /\ UNCHANGED <<span, face, overflow_checks, gvars, rvars>>

(***************************************************************************)
(* TextureRenderer (renderer.rs 242-262).  A Span is held here as its      *)
(* color and the (Option<GlyphMesh>, GlyphData) pairs its glyphs           *)
(* triangulate to (text.rs 95-100); generate_text_mesh(color_index) is     *)
(* TextMeshBuilder::build over them, its vertices stamped with             *)
(* color_index.  A run of all_vertices is count vertices of one span.      *)
(***************************************************************************)
NaNColor == [c |-> <<0, 0, 0, 1>>, nan |-> {1}]

RenderColors == {Color(0, 0, 0, 1), Color(1, 0, 0, 1), NaNColor}

RenderAdvance == [x_advance |-> 600, y_advance |-> 0]

RenderMeshData ==
    { <<>>,
      << <<Some(GlyphMeshOf(3, <<0, 1, 2>>)), RenderAdvance>> >>,
      << <<Some(GlyphMeshOf(65534, <<0, 1, 65533>>)), RenderAdvance>> >> }

RenderSpans == [color : RenderColors, mesh_data : RenderMeshData]

\* all_colors.contains(&color), renderer.rs 253
Contains(colors, color) == \E i \in 1..Len(colors) : ColorEq(colors[i], color)

\* all_colors.iter().position(|c| *c == color), renderer.rs 257
ColorPosition(colors, color) ==
    IF Contains(colors, color)
    THEN Some((CHOOSE i \in 1..Len(colors) :
                  /\ ColorEq(colors[i], color)
                  /\ \A j \in 1..(i - 1) : ~ColorEq(colors[j], color)) - 1)
    ELSE NoneVal

\* .unwrap_or(0) as u32, renderer.rs 257
ColorIndex(colors, color) ==
    LET p == ColorPosition(colors, color)
    IN  IF IsSome(p) THEN p.val ELSE 0

\* The loop of render (renderer.rs 252-262), from span k on.
RECURSIVE RenderFrom(_, _, _, _, _, _, _)
RenderFrom(sps, k, vertices, indices, colors, log, checks) ==
    IF k > Len(sps)
    THEN [outcome |-> "done", vertices |-> vertices, indices |-> indices,
          colors |-> colors, log |-> log]
    ELSE LET sp == sps[k]
             colors2 == IF Contains(colors, sp.color) THEN colors
                        ELSE Append(colors, sp.color)
             color_index == ColorIndex(colors2, sp.color)
             tm == TextBuild(sp.mesh_data, checks)
             last_index == VLen(vertices) % U16Mod
             stop(outcome) == [outcome |-> outcome, vertices |-> vertices,
                               indices |-> indices, colors |-> colors2, log |-> log]
         IN  IF tm.outcome # "ok" THEN stop(tm.outcome)
             ELSE IF checks /\ \E i \in 1..Len(tm.indices) :
                                   AddU16Overflows(tm.indices[i], last_index)
             THEN stop("panic_overflow")
             ELSE RenderFrom(sps, k + 1,
                     IF VLen(tm.vertices) = 0 THEN vertices
                     ELSE Append(vertices, [count |-> VLen(tm.vertices), span |-> k,
                                            color_index |-> color_index]),
                     indices \o [i \in 1..Len(tm.indices) |->
                                    AddU16(tm.indices[i], last_index)],
                     colors2,
                     Append(log, [color_index |-> color_index,
                                  nindices |-> Len(tm.indices)]),
                     checks)

\* The device side before render: nothing submitted, output_buffer unmapped
\* (renderer.rs 219-225: mapped_at_creation: false).
BackendIdle ==
    [pc |-> 0, calls |-> <<>>, queue |-> <<>>, executed |-> 0, map |-> "unmapped",
     channel |-> <<>>, received |-> "none", data |-> FALSE, draws |-> <<>>]

\* TextureRenderer::new, renderer.rs 227-240: spans: vec![]
RenderNewFields ==
    /\ spans = <<>>
    /\ all_vertices = <<>>
    /\ all_indices = <<>>
    /\ all_colors = <<>>
    /\ passed = <<>>
    /\ rpc = "new"
    /\ backend = BackendIdle

\* add_span, renderer.rs 242-245
add_span(mesh) ==
    /\ rpc = "new"
    /\ Len(spans) < MaxSpans
    /\ spans' = Append(spans, mesh)
    /\ UNCHANGED <<all_vertices, all_indices, all_colors, passed, rpc, backend,
                   gvars, tvars, svars>>

\* render, renderer.rs 248-262 (the buffers it hands to the device)
render ==
    /\ rpc = "new"
    /\ LET r == RenderFrom(spans, 1, <<>>, <<>>, <<>>, <<>>, overflow_checks)
       IN  /\ all_vertices' = r.vertices
           /\ all_indices' = r.indices
           /\ all_colors' = r.colors
           /\ passed' = r.log
           /\ rpc' = r.outcome
    /\ UNCHANGED <<spans, backend, gvars, tvars, svars>>

(***************************************************************************)
(* The rest of render (renderer.rs 377-419): what it asks of the queue,    *)
(* the device and the output buffer, in program order.  backend.pc counts  *)
(* the calls made.                                                         *)
(***************************************************************************)
RenderBackendCallsMutReadBeforeRecv ==
    <<"submit_draw", "submit_copy", "map_async", "poll", "get_mapped_range",
      "recv", "unmap">>

RenderBackendCalls ==
    <<"submit_draw",        \* 377  self.queue.submit(Some(encoder.finish()))
      "submit_copy",        \* 401  self.queue.submit(Some(encoder.finish()))
      "map_async",          \* 409  buffer_slice.map_async(MapMode::Read, ..)
      "poll",               \* 412  self.device.poll(wgpu::Maintain::Wait)
      "recv",               \* 413  rx.recv().unwrap().unwrap()
      "get_mapped_range",   \* 415  buffer_slice.get_mapped_range().to_vec()
      "unmap">>             \* 417  self.output_buffer.unmap()

\* The call render makes next, "return" after the last.
NextCall(b) ==
    IF b.pc < Len(RenderBackendCalls) THEN RenderBackendCalls[b.pc + 1] ELSE "return"

\* What map_async's callback can be handed: Result<(), BufferAsyncError>.
MapResults == {"Ok", "Err"}

\* Every command buffer submitted has been executed and no map request is
\* waiting: what poll(Maintain::Wait) blocks for.
DeviceIdle(b) == b.executed = Len(b.queue) /\ b.map # "pending"

Called(b, call) == [b EXCEPT !.pc = b.pc + 1, !.calls = Append(b.calls, call)]

AtCall(call) == rpc = "done" /\ NextCall(backend) = call

RenderRest == <<spans, all_vertices, all_indices, all_colors, passed,
                gvars, tvars, svars>>

\* self.render_texture.width(): the width TextureRenderer::new was given
\* (renderer.rs 96, 124), here the width the meshes are normalized to.
RenderTextureWidth == TEXTURE_SIZE[1]

\* renderer.rs 325-331: third_pixel = 1.0 / width, and the instance table
\* { -third_pixel, third_pixel, 0.0 }.
SubpixelInstanceData(width) ==
    << FNeg(FDiv(FromInt(1), FromInt(width))), FDiv(FromInt(1), FromInt(width)),
       FZero >>

\* renderer.rs 374: draw_indexed(0..all_indices.len() as u32, 0,
\* 0..subpixel_instance_data.len())
DrawIndexed(indices, instance_data) ==
    [index_count |-> Len(indices), first_index |-> 0,
     instances |-> instance_data]

\* renderer.rs 324-377: the render pass, with its one draw, is encoded and
\* submitted.
SubmitDraw ==
    /\ AtCall("submit_draw")
    /\ backend' = [Called(backend, "submit_draw") EXCEPT
                       !.queue = Append(backend.queue, "draw"),
                       !.draws = Append(backend.draws,
                                     DrawIndexed(all_indices,
                                         SubpixelInstanceData(RenderTextureWidth)))]
    /\ UNCHANGED <<rpc, RenderRest>>

\* renderer.rs 380-401: copy_texture_to_buffer is encoded and submitted.
SubmitCopy ==
    /\ AtCall("submit_copy")
    /\ backend' = [Called(backend, "submit_copy") EXCEPT
                       !.queue = Append(backend.queue, "copy")]
    /\ UNCHANGED <<rpc, RenderRest>>

\* renderer.rs 408-411: the map is requested, its callback holds tx.
MapAsync ==
    /\ AtCall("map_async")
    /\ backend' = [Called(backend, "map_async") EXCEPT !.map = "pending"]
    /\ UNCHANGED <<rpc, RenderRest>>

\* The queue executes the command buffers in submission order, at its pace.
DeviceExecute ==
    /\ rpc = "done"
    /\ backend.executed < Len(backend.queue)
    /\ backend' = [backend EXCEPT !.executed = backend.executed + 1]
    /\ UNCHANGED <<rpc, RenderRest>>

\* renderer.rs 409-411: inside poll, once the submitted work is over, the
\* callback runs: tx.send(result).
MapCallback(result) ==
    /\ AtCall("poll")
    /\ backend.map = "pending"
    /\ backend.executed = Len(backend.queue)
    /\ backend' = [backend EXCEPT
                       !.map = IF result = "Ok" THEN "mapped" ELSE "failed",
                       !.channel = Append(backend.channel, result)]
    /\ UNCHANGED <<rpc, RenderRest>>

\* renderer.rs 412: poll(Maintain::Wait) returns when the device is idle.
DevicePoll ==
    /\ AtCall("poll")
    /\ DeviceIdle(backend)
    /\ backend' = Called(backend, "poll")
    /\ UNCHANGED <<rpc, RenderRest>>

\* renderer.rs 413: rx.recv() blocks for the result; an Err panics.
Recv ==
    /\ AtCall("recv")
    /\ backend.channel # <<>>
    /\ LET result == Head(backend.channel)
       IN  /\ backend' = [Called(backend, "recv") EXCEPT
                              !.channel = Tail(backend.channel),
                              !.received = result]
           /\ rpc' = IF result = "Ok" THEN rpc ELSE "panic_map"
    /\ UNCHANGED RenderRest

\* renderer.rs 415: the mapped bytes are copied into data; a range of a
\* buffer that is not mapped panics.
GetMappedRange ==
    /\ AtCall("get_mapped_range")
    /\ IF backend.map = "mapped"
       THEN /\ backend' = [Called(backend, "get_mapped_range") EXCEPT !.data = TRUE]
            /\ rpc' = rpc
       ELSE /\ backend' = backend
            /\ rpc' = "panic_not_mapped"
    /\ UNCHANGED RenderRest

\* renderer.rs 417: the buffer is unmapped, then data is returned.
Unmap ==
    /\ AtCall("unmap")
    /\ backend' = [Called(backend, "unmap") EXCEPT !.map = "unmapped"]
    /\ UNCHANGED <<rpc, RenderRest>>

(***************************************************************************)
(* GlyphMeshBuilder::new (mesh.rs 20-26).                                  *)
(***************************************************************************)
GlyphInitFields ==
    /\ reverse_wind = FALSE
    /\ polygons = <<>>
    /\ bezier_polygons = <<>>
    /\ gpc = "new"
    /\ glyph_mesh = NoneVal
    /\ glog = [glyf |-> TRUE, cff |-> FALSE, cff2 |-> FALSE, entry |-> "none",
               events |-> 0, quads |-> 0, cubics |-> 0,
               earcut |-> "none", groups |-> <<>>]

GlyphPanicked ==
    gpc \in {"panic_no_ring", "panic_hole_first", "panic_earcut", "panic_overflow"}

CanFeed == gpc = "outline"

\* How many more events the outline walk of the model feeds.
EventsLeft == glog.events < MaxEvents

CurvesLeft == EventsLeft /\ glog.quads + glog.cubics < MaxCurves

RingEventsLeft == glog.events < MaxRingEvents

GroupEventsLeft == glog.events < MaxGroupEvents

Logged(op) ==
    [glog EXCEPT !.events = @ + 1,
                 !.quads  = @ + (IF op = "quad_to" THEN 1 ELSE 0),
                 !.cubics = @ + (IF op = "curve_to" THEN 1 ELSE 0)]

\* mesh.rs 30: !face.tables().glyf.is_some()
WindOfBuild(tables) == ~tables.glyf

\* main.rs 262: (cff.is_some() | cff2.is_some()) ^ !glyf.is_some()
WindOfMain(tables) == (tables.cff \/ tables.cff2) # (~tables.glyf)

StartLog(tables, entry) ==
    [glog EXCEPT !.glyf = tables.glyf, !.cff = tables.cff, !.cff2 = tables.cff2,
                 !.entry = entry]

(***************************************************************************)
(* GlyphMeshBuilder::build, mesh.rs 30: the winding direction is set from  *)
(* the face before the outline is walked.                                  *)
(***************************************************************************)
BuildStart(tables) ==
    /\ gpc = "new"
    /\ reverse_wind' = WindOfBuild(tables)
    /\ gpc' = "outline"
    /\ glog' = StartLog(tables, "build")
    /\ UNCHANGED <<polygons, bezier_polygons, glyph_mesh, tvars, svars, rvars>>

(***************************************************************************)
(* main, main.rs 262 and 269-270: the winding direction is computed from   *)
(* the face before the loop over the glyphs and handed to                  *)
(* MyOutlineBuilder::new(reverse_wind, start_index), whose callbacks       *)
(* (main.rs 98-167) are those of GlyphMeshBuilder.  The first glyph of the *)
(* loop is modelled: start_index is 0, for which                           *)
(* MyOutlineBuilder::triangulate (main.rs 32-95) is                        *)
(* GlyphMeshBuilder::triangulate.                                          *)
(***************************************************************************)
MainStart(tables) ==
    /\ gpc = "new"
    /\ reverse_wind' = WindOfMain(tables)
    /\ gpc' = "outline"
    /\ glog' = StartLog(tables, "main")
    /\ UNCHANGED <<polygons, bezier_polygons, glyph_mesh, tvars, svars, rvars>>

(***************************************************************************)
(* The outline events face.outline_glyph feeds to the builder (mesh.rs 35).*)
(* An event other than move_to with no ring yet is last_mut().unwrap() on  *)
(* None.                                                                   *)
(***************************************************************************)
NoRingPanic ==
    /\ gpc' = "panic_no_ring"
    /\ glog' = [glog EXCEPT !.events = @ + 1]
    /\ UNCHANGED <<reverse_wind, polygons, bezier_polygons, glyph_mesh, tvars, svars, rvars>>

move_to(p) ==
    /\ CanFeed
    /\ polygons' = MoveToPolys(polygons, p)
    /\ glog' = Logged("move_to")
    /\ UNCHANGED <<reverse_wind, bezier_polygons, gpc, glyph_mesh, tvars, svars, rvars>>

line_to(p) ==
    /\ CanFeed
    /\ IF polygons = <<>>
       THEN NoRingPanic
       ELSE /\ polygons' = LineToPolys(polygons, p)
            /\ glog' = Logged("line_to")
            /\ UNCHANGED <<reverse_wind, bezier_polygons, gpc, glyph_mesh, tvars, svars, rvars>>

quad_to(c, p) ==
    /\ CanFeed
    /\ IF polygons = <<>>
       THEN NoRingPanic
       ELSE /\ polygons' = QuadToPolys(polygons, reverse_wind, c, p)
            /\ bezier_polygons' =
                   QuadToBezier(polygons, bezier_polygons, reverse_wind, c, p)
            /\ glog' = Logged("quad_to")
            /\ UNCHANGED <<reverse_wind, gpc, glyph_mesh, tvars, svars, rvars>>

curve_to(c1, c2, p) ==
    /\ CanFeed
    /\ IF polygons = <<>>
       THEN NoRingPanic
       ELSE /\ polygons' = CurveToPolys(polygons, reverse_wind, c1, c2, p)
            /\ bezier_polygons' =
                   CurveToBezier(polygons, bezier_polygons, reverse_wind, c1, c2, p)
            /\ glog' = Logged("curve_to")
            /\ UNCHANGED <<reverse_wind, gpc, glyph_mesh, tvars, svars, rvars>>

(***************************************************************************)
(* build, mesh.rs 35-37: outline_glyph answered None, whatever it fed to   *)
(* the builder before: build answers None.  main (main.rs 270) drops what  *)
(* outline_glyph answers and triangulates all the same.                    *)
(***************************************************************************)
BuildNoOutline ==
    /\ gpc = "outline"
    /\ glog.entry = "build"
    /\ gpc' = "done"
    /\ glyph_mesh' = NoneVal
    /\ UNCHANGED <<reverse_wind, polygons, bezier_polygons, glog, tvars, svars, rvars>>

(***************************************************************************)
(* main.rs 272-278: main moves the vertices triangulate returned, in f32:  *)
(* position[0] += cursor_x as f32 (0 for the first glyph), *= DEBUG_SCALAR,*)
(* position[1] *= DEBUG_SCALAR * (TEXTURE_SIZE.0 / TEXTURE_SIZE.1), and    *)
(* both += -1.0 + TEXT_POSITION.i / TEXTURE_SIZE.i.                        *)
(***************************************************************************)
\* main.rs 8: const DEBUG_SCALAR: f32 = 0.00015
DEBUG_SCALAR == FOfRatPos(15, 100000)

\* main.rs 7: const TEXT_POSITION: (u32, u32) = (100, 950)
TEXT_POSITION == <<100, 950>>

\* A coordinate of the model, kept in half units, as the f32 it is.
FromHalf(x) == FDiv(FromInt(x), FromInt(2))

\* main.rs 276-277: -1.0 + TEXT_POSITION.i as f32 / TEXTURE_SIZE.i as f32
MainOffset(axis) ==
    FAdd(FromInt(0 - 1),
         FDiv(FromInt(TEXT_POSITION[axis]), FromInt(TEXTURE_SIZE[axis])))

MainPlaceVertex(v) ==
    [v EXCEPT !.position =
        << FAdd(FMul(FAdd(FromHalf(@[1]), FromInt(0)), DEBUG_SCALAR), MainOffset(1)),
           FAdd(FMul(FromHalf(@[2]),
                     FMul(DEBUG_SCALAR,
                          FDiv(FromInt(TEXTURE_SIZE[1]), FromInt(TEXTURE_SIZE[2])))),
                MainOffset(2)),
           @[3] >>]

\* The vertices as the entry point leaves them: build returns them as
\* triangulate made them, main moves them.
PlacedByEntry(entry, vertices) ==
    IF entry = "main"
    THEN [i \in 1..Len(vertices) |-> MainPlaceVertex(vertices[i])]
    ELSE vertices

(***************************************************************************)
(* build, mesh.rs 38-44: outline_glyph answered the bounds; triangulate    *)
(* runs and build answers Some(GlyphMesh).  main.rs 270-278: triangulate   *)
(* runs whatever outline_glyph answered.  mode is how earcut answers for   *)
(* each shape group.                                                       *)
(***************************************************************************)
BuildTriangulate(mode) ==
    /\ gpc = "outline"
    /\ LET modes == [g \in 1..Len(polygons) |-> mode]
           r == triangulate(polygons, bezier_polygons, reverse_wind, modes,
                            overflow_checks)
       IN  /\ gpc' = IF r.outcome = "ok" THEN "done" ELSE r.outcome
           /\ glyph_mesh' = IF r.outcome = "ok"
                            THEN Some([vertices |-> PlacedByEntry(glog.entry, r.vertices),
                                       indices |-> r.indices])
                            ELSE NoneVal
           /\ glog' = [glog EXCEPT !.earcut = mode, !.groups = r.groups]
    /\ UNCHANGED <<reverse_wind, polygons, bezier_polygons, tvars, svars, rvars>>

(***************************************************************************)
(* The specifications: one per component, the others at rest.              *)
(***************************************************************************)
GlyphInit ==
    /\ GlyphInitFields
    /\ TextNewFields
    /\ overflow_checks \in BOOLEAN
    /\ SpanIdle
    /\ RenderNewFields

GlyphNext ==
    \/ \E tables \in OutlineFaces : BuildStart(tables)
    \/ \E p \in Coords : EventsLeft /\ move_to(p)
    \/ \E p \in Coords : EventsLeft /\ line_to(p)
    \/ \E c \in CtrlCoords, p \in Coords : CurvesLeft /\ quad_to(c, p)
    \/ \E c1, c2 \in CtrlCoords, p \in Coords : CurvesLeft /\ curve_to(c1, c2, p)
    \/ BuildNoOutline
    \/ \E mode \in EarcutModes : BuildTriangulate(mode)

SpecGlyph == GlyphInit /\ [][GlyphNext]_vars

\* Straight-edged outlines over coordinates large enough for f32 to round.
RingsNext ==
    \/ \E tables \in OutlineFaces : BuildStart(tables)
    \/ \E p \in RingCoords : RingEventsLeft /\ move_to(p)
    \/ \E p \in RingCoords : RingEventsLeft /\ line_to(p)
    \/ BuildNoOutline
    \/ \E mode \in RingEarcutModes : BuildTriangulate(mode)

SpecRings == GlyphInit /\ [][RingsNext]_vars

\* Straight-edged outlines of up to MaxGroupEvents points: long enough for
\* two rings classified as non-hole followed by a ring classified as hole
\* (in a face without a glyf table: two single points, then a triangle).
GroupsNext ==
    \/ \E tables \in OutlineFaces : BuildStart(tables)
    \/ \E p \in Coords : GroupEventsLeft /\ move_to(p)
    \/ \E p \in Coords : GroupEventsLeft /\ line_to(p)
    \/ BuildNoOutline
    \/ \E mode \in RingEarcutModes : BuildTriangulate(mode)

SpecGroups == GlyphInit /\ [][GroupsNext]_vars

\* Both places that set the winding direction, over every kind of face.
WindNext ==
    \/ \E tables \in FaceTables : BuildStart(tables)
    \/ \E tables \in FaceTables : MainStart(tables)
    \/ \E p \in WindCoords : EventsLeft /\ move_to(p)
    \/ \E p \in WindCoords : EventsLeft /\ line_to(p)
    \/ \E c \in WindCtrlCoords, p \in WindCoords : CurvesLeft /\ quad_to(c, p)
    \/ \E c1, c2 \in WindCtrlCoords, p \in WindCoords :
           CurvesLeft /\ curve_to(c1, c2, p)
    \/ BuildNoOutline
    \/ \E mode \in RingEarcutModes : BuildTriangulate(mode)

SpecWind == GlyphInit /\ [][WindNext]_vars

TextInit ==
    /\ GlyphInitFields
    /\ TextNewFields
    /\ overflow_checks \in BOOLEAN
    /\ SpanIdle
    /\ RenderNewFields

TextNext ==
    \/ \E mesh \in TextMeshes, data \in TextAdvances : TextAdd(mesh, data)
    \/ TextBuildStep

SpecText == TextInit /\ [][TextNext]_vars

\* TextMeshBuilder configured, filled and built over the placement inputs.
PlaceInit ==
    /\ GlyphInitFields
    /\ TextIdle
    /\ span = SpanNew(<<>>, 0, 0)
    /\ face \in PlaceFaces
    /\ spc = "idle"
    /\ measured = Rat(0, 1)
    /\ RenderNewFields

PlaceNext ==
    \/ \E n \in PlaceFontSizes : TextWithFontSize(n)
    \/ \E xy \in PlaceOrigins : TextWithPosition(xy[1], xy[2])
    \/ \E mesh \in PlaceMeshes, data \in PlaceAdvances : TextAdd(mesh, data)
    \/ TextBuildStep

SpecPlace == PlaceInit /\ [][PlaceNext]_vars

SpanInit ==
    /\ GlyphInitFields
    /\ TextNewFields
    /\ overflow_checks = FALSE
    /\ \E text \in Texts, xy \in SpanPositions : span = SpanNew(text, xy[1], xy[2])
    /\ face \in Faces
    /\ spc = "config"
    /\ measured = Rat(0, 1)
    /\ RenderNewFields

SpanNext ==
    \/ \E wh \in BoxSizes : with_size(wh[1], wh[2])
    \/ \E fs \in FontSizes : with_font_size(fs)
    \/ \E a \in Alignment : with_v_align(a)
    \/ \E a \in Alignment : with_h_align(a)
    \/ \E c \in WithColors : with_color(c)
    \/ generate_text_mesh

SpecSpan == SpanInit /\ [][SpanNext]_vars

\* A Span configured over the font sizes of SizeFontSizes and laid out.
SizeInit ==
    /\ GlyphInitFields
    /\ TextNewFields
    /\ overflow_checks = FALSE
    /\ \E text \in SizeTexts, xy \in SpanPositions : span = SpanNew(text, xy[1], xy[2])
    /\ face \in Faces
    /\ spc = "config"
    /\ measured = Rat(0, 1)
    /\ RenderNewFields

SizeNext ==
    \/ \E wh \in SizeBoxes : with_size(wh[1], wh[2])
    \/ \E fs \in SizeFontSizes : with_font_size(fs)
    \/ \E a \in Alignment : with_v_align(a)
    \/ \E c \in WithColors : with_color(c)
    \/ generate_text_mesh

SpecSize == SizeInit /\ [][SizeNext]_vars

RenderInit ==
    /\ GlyphInitFields
    /\ TextNewFields
    /\ overflow_checks \in BOOLEAN
    /\ SpanIdle
    /\ RenderNewFields

RenderNext ==
    \/ \E mesh \in RenderSpans : add_span(mesh)
    \/ render
    \/ SubmitDraw
    \/ SubmitCopy
    \/ MapAsync
    \/ DeviceExecute
    \/ \E result \in MapResults : MapCallback(result)
    \/ DevicePoll
    \/ Recv
    \/ GetMappedRange
    \/ Unmap

SpecRender == RenderInit /\ [][RenderNext]_vars


(***************************************************************************)
(* Claims about the glyph builder, checked under SpecGlyph.                *)
(***************************************************************************)
GlyphDone == gpc = "done" /\ IsSome(glyph_mesh)

\* C1: in the (vertices, indices) pair triangulate returns, every index is
\* strictly less than the number of vertices returned.
C1_IndicesBelowVertexCount ==
    GlyphDone =>
        \A i \in 1..Len(glyph_mesh.val.indices) :
            glyph_mesh.val.indices[i] < Len(glyph_mesh.val.vertices)

\* A mesh was returned that holds a flat-fill triangle over points past the
\* first ring (an index that had to count the vertices before it) and a
\* curve triangle after it.
C1_Witness ==
    /\ GlyphDone
    /\ Len(polygons) >= 2
    /\ \E i, j \in 1..Len(glyph_mesh.val.indices) :
          /\ i < j
          /\ glyph_mesh.val.indices[i] >= Len(polygons[1])
          /\ glyph_mesh.val.vertices[glyph_mesh.val.indices[i] + 1].metadata = 0
          /\ glyph_mesh.val.vertices[glyph_mesh.val.indices[j] + 1].metadata >= 2

\* C6: when the first ring of a glyph is classified as a hole, triangulate
\* rejects or logs the ring and does not abort the process.
C6_HoleFirstDoesNotAbort ==
    (polygons # <<>> /\ is_polygon_hole(polygons, reverse_wind)[1])
        => gpc # "panic_hole_first"

(***************************************************************************)
(* Claims about TextMeshBuilder::build, checked under SpecText.            *)
(***************************************************************************)
Abs(n) == IF n >= 0 THEN n ELSE 0 - n

\* The exact (integer) sum of the advances of the first k pairs.
RECURSIVE AdvanceSum(_, _)
AdvanceSum(md, k) ==
    IF k = 0 THEN <<0, 0>>
    ELSE LET rest == AdvanceSum(md, k - 1)
         IN  <<rest[1] + md[k][2].x_advance, rest[2] + md[k][2].y_advance>>

CursorsAreExactSums ==
    /\ \A r \in 1..Len(text_mesh.vertices) :
          text_mesh.vertices[r].cursor =
              AdvanceSum(mesh_data, text_mesh.vertices[r].src - 1)
    /\ text_mesh.cursor = AdvanceSum(mesh_data, Len(mesh_data))

\* Every advance and every partial sum of advances is an integer f32 holds.
SumsWithinF32 ==
    \A k \in 1..Len(mesh_data) :
        /\ Abs(mesh_data[k][2].x_advance) <= F32Exact
        /\ Abs(mesh_data[k][2].y_advance) <= F32Exact
        /\ Abs(AdvanceSum(mesh_data, k)[1]) <= F32Exact
        /\ Abs(AdvanceSum(mesh_data, k)[2]) <= F32Exact

\* C2 as claimed: the cursor that translates the k-th glyph's vertices is the
\* exact sum of the advances of the glyphs before it, and the cursor after
\* all glyphs is the exact sum of all advances, for every sequence of pairs.
C2_CursorIsExactSum == tpc = "done" => CursorsAreExactSums

\* C2 as amended: the same, for every sequence of pairs whose advances and
\* partial sums of advances do not exceed 2^24 in magnitude (the cursor is
\* an f32 accumulator), whichever glyphs have an absent mesh.
C2_CursorIsExactSumWithinF32 ==
    (tpc = "done" /\ SumsWithinF32) => CursorsAreExactSums

\* Three pairs were laid out, the first with a mesh, the second without, the
\* third with a mesh translated by a cursor away from the origin.
C2_Witness ==
    /\ tpc = "done" /\ SumsWithinF32
    /\ Len(mesh_data) = 3
    /\ IsSome(mesh_data[1][1]) /\ ~IsSome(mesh_data[2][1]) /\ IsSome(mesh_data[3][1])
    /\ Len(text_mesh.vertices) = 2
    /\ text_mesh.vertices[1].cursor = <<0, 0>>
    /\ text_mesh.vertices[2].cursor[1] > 0
    /\ text_mesh.vertices[2].cursor[2] < 0

(***************************************************************************)
(* Claims about Span::generate_text_mesh, checked under SpecSpan.          *)
(***************************************************************************)
SpanDone == spc = "done"

HasGlyph(id) == \E k \in 1..Len(span.text) : span.text[k].glyph_id = id

\* Vertices and indices the present meshes among the first k pairs hold.
RECURSIVE PresentVerts(_, _)
PresentVerts(md, k) ==
    IF k = 0 THEN 0
    ELSE PresentVerts(md, k - 1)
            + (IF IsSome(md[k][1]) THEN md[k][1].val.nverts ELSE 0)

RECURSIVE PresentIndices(_, _)
PresentIndices(md, k) ==
    IF k = 0 THEN 0
    ELSE PresentIndices(md, k - 1)
            + (IF IsSome(md[k][1]) THEN Len(md[k][1].val.indices) ELSE 0)

\* C5: when earcut fails on a glyph, the failure is recoverable: the process
\* does not abort, the glyph's mesh is absent, the other glyphs of the span
\* are laid out, and the cursor advances by the failed glyph's advance too.
C5_EarcutFailureIsRecoverable ==
    (spc # "config" /\ HasGlyph(2) /\ ~HasGlyph(3)) =>
        /\ spc = "done"
        /\ Len(mesh_data) = Len(span.text)
        /\ \A k \in 1..Len(mesh_data) :
              span.text[k].glyph_id = 2 => ~IsSome(mesh_data[k][1])
        /\ text_mesh.cursor = AdvanceSum(mesh_data, Len(mesh_data))

\* C7: a glyph with no outline has an absent mesh; in the TextMesh an absent
\* mesh adds no vertex and no index and does not move the offset of the
\* indices of later glyphs; its advance is still added to the cursor.
C7_AbsentMeshSkippedCursorAdvanced ==
    SpanDone =>
        /\ Len(mesh_data) = Len(span.text)
        /\ \A k \in 1..Len(mesh_data) :
              ~IsSome(FaceOutline(span.text[k].glyph_id)) =>
                  /\ ~IsSome(mesh_data[k][1])
                  /\ \A r \in 1..Len(text_mesh.vertices) :
                        text_mesh.vertices[r].src # k
        /\ VLen(text_mesh.vertices) = PresentVerts(mesh_data, Len(mesh_data))
        /\ Len(text_mesh.indices) = PresentIndices(mesh_data, Len(mesh_data))
        /\ \A k \in 1..Len(mesh_data) :
              IsSome(mesh_data[k][1]) =>
                  \A i \in 1..Len(mesh_data[k][1].val.indices) :
                      text_mesh.indices[PresentIndices(mesh_data, k - 1) + i]
                          = mesh_data[k][1].val.indices[i]
                              + PresentVerts(mesh_data, k - 1)
        /\ \A r \in 1..Len(text_mesh.vertices) :
              text_mesh.vertices[r].cursor =
                  AdvanceSum(mesh_data, text_mesh.vertices[r].src - 1)
        /\ text_mesh.cursor = AdvanceSum(mesh_data, Len(mesh_data))

\* A span "triangle, space, triangle" was laid out: the space has no mesh,
\* the second triangle's indices start right after the first triangle's
\* vertices, and its cursor counts the space's advance.
C7_Witness ==
    /\ SpanDone
    /\ Len(span.text) = 3
    /\ span.text[1].glyph_id = 1 /\ span.text[2].glyph_id = 0
    /\ span.text[3].glyph_id = 1
    /\ ~IsSome(mesh_data[2][1])
    /\ Len(text_mesh.vertices) = 2
    /\ text_mesh.indices[4] = 3
    /\ text_mesh.vertices[2].cursor[1]
          = span.text[1].x_advance + span.text[2].x_advance
    /\ span.text[2].x_advance > 0

\* C8: when shaping answers no glyph, generate_text_mesh returns a TextMesh
\* with zero vertices and zero indices, whatever the alignment, the bounding
\* box and the font size.
C8_EmptyTextEmptyMesh ==
    (SpanDone /\ span.text = <<>>) =>
        /\ VLen(text_mesh.vertices) = 0
        /\ text_mesh.vertices = <<>>
        /\ text_mesh.indices = <<>>

\* An empty text was laid out in a box, centred horizontally, bottom-aligned,
\* at a pixel font size.
C8_Witness ==
    /\ SpanDone /\ span.text = <<>>
    /\ IsSome(span.size) /\ span.h_align = "Middle" /\ span.v_align = "End"
    /\ span.font_size = Px(24)
    /\ position # span.position

(***************************************************************************)
(* Alignment.  MiddleError is 2 * measured.d times the distance from the   *)
(* exact centre, position_x + W/2 - width/2, to the origin the code hands  *)
(* to the TextMeshBuilder.                                                 *)
(***************************************************************************)
MiddleError ==
    2 * measured.d * (position[1] - span.position[1])
        - (span.size.val[1] * measured.d - measured.n)

MiddleCase == SpanDone /\ IsSome(span.size) /\ span.h_align = "Middle"

\* C9 as claimed: with a box of width W and Middle horizontal alignment,
\* origin_x = position_x + W/2 - measured_width/2 within tolerance (here
\* 1/100 pixel), for every W and every measured width.
C9_MiddleOriginWithinTolerance ==
    MiddleCase => 100 * Abs(MiddleError) <= 2 * measured.d

\* C9 as amended: the origin is an integer and is off the exact centre by
\* less than one pixel when the measured width is not negative (at most 1/2
\* below, less than 1 above), and by less than 3/2 pixel below otherwise.
C9_MiddleOriginWithinOnePixel ==
    MiddleCase =>
        IF measured.n >= 0
        THEN 0 - measured.d <= MiddleError /\ MiddleError < 2 * measured.d
        ELSE 0 - 3 * measured.d < MiddleError /\ MiddleError <= 0

\* A centred span with an odd box width and a positive measured width that
\* is no integer, whose origin is off the exact centre.
C9_Witness ==
    /\ MiddleCase
    /\ span.size.val[1] % 2 = 1
    /\ measured.n > 0 /\ measured.d > 1
    /\ MiddleError # 0

\* The parts of C10 that hold as claimed: Start leaves its axis unchanged,
\* each axis depends on its own setting only, and without a bounding box the
\* origin is the span position.
AxesOtherwiseAsClaimed ==
    /\ ~IsSome(span.size) => position = span.position
    /\ (IsSome(span.size) /\ span.h_align = "Start") => position[1] = span.position[1]
    /\ (IsSome(span.size) /\ span.v_align = "Start") => position[2] = span.position[2]
    /\ (IsSome(span.size) /\ span.v_align = "Middle") =>
          position[2] = (span.position[2] + TruncDiv(span.size.val[2], 2))
                            - TruncDiv(FontSizeI32(span.font_size), 2)
    /\ (IsSome(span.size) /\ span.h_align = "Middle") =>
          position[1] = (span.position[1] + TruncDiv(span.size.val[1], 2))
                            - TruncDiv(TruncRat(measured), 2)

\* C10 as claimed: End adds box_extent - content_extent, content_extent being
\* the measured width horizontally and the font size vertically.
C10_EndAddsBoxMinusContent ==
    SpanDone =>
        /\ AxesOtherwiseAsClaimed
        /\ (IsSome(span.size) /\ span.h_align = "End") =>
              measured.d * (position[1] - span.position[1] - span.size.val[1])
                  = 0 - measured.n
        /\ (IsSome(span.size) /\ span.v_align = "End") =>
              FontSizeF32(span.font_size).d
                      * (position[2] - span.position[2] - span.size.val[2])
                  = 0 - FontSizeF32(span.font_size).n

\* C10 as amended: the content extents End subtracts are integers: the
\* measured width truncated towards zero, and the font size in pixels rounded
\* to the nearest integer.
C10_EndAddsBoxMinusIntegerContent ==
    SpanDone =>
        /\ AxesOtherwiseAsClaimed
        /\ (IsSome(span.size) /\ span.h_align = "End") =>
              position[1] = (span.position[1] + span.size.val[1]) - TruncRat(measured)
        /\ (IsSome(span.size) /\ span.v_align = "End") =>
              position[2] = (span.position[2] + span.size.val[2])
                                - FontSizeI32(span.font_size)

\* A span right- and bottom-aligned in a box, with a measured width and a
\* font size in pixels that are no integers.
C10_Witness ==
    /\ SpanDone /\ IsSome(span.size)
    /\ span.h_align = "End" /\ span.v_align = "End"
    /\ measured.d > 1 /\ FontSizeF32(span.font_size).d > 1
    /\ Len(span.text) >= 2

(***************************************************************************)
(* Claims about TextureRenderer::render, checked under SpecRender.         *)
(***************************************************************************)
\* The colors that appear among the spans.
SpanColors == {spans[k].color : k \in 1..Len(spans)}

\* C3: for N added spans in which K distinct colors appear, the palette
\* render builds has exactly K entries, no two of them the same, and the
\* color index passed to each span's generate_text_mesh names the palette
\* entry that holds that span's color.
C3_PaletteHasKEntriesIndexNamesColor ==
    rpc = "done" =>
        /\ Len(all_colors) = Cardinality(SpanColors)
        /\ \A i, j \in 1..Len(all_colors) : all_colors[i] = all_colors[j] => i = j
        /\ Len(passed) = Len(spans)
        /\ \A k \in 1..Len(spans) :
              /\ passed[k].color_index < Len(all_colors)
              /\ all_colors[passed[k].color_index + 1] = spans[k].color

\* The span that contributed vertex v (counted from 0) of the global buffer.
RECURSIVE VertexOwner(_, _)
VertexOwner(runs, v) ==
    IF runs = <<>> THEN 0
    ELSE IF v < Head(runs).count THEN Head(runs).span
    ELSE VertexOwner(Tail(runs), v - Head(runs).count)

\* The indices the first k spans contributed.
RECURSIVE IndicesBefore(_, _)
IndicesBefore(log, k) ==
    IF k = 0 THEN 0 ELSE IndicesBefore(log, k - 1) + log[k].nindices

\* C4: render processes every span once, in add_span order; after any number
\* of spans and of vertices, every global index is less than the global
\* vertex count and refers to a vertex of the span that contributed it.
C4_GlobalIndicesReferToOwnSpan ==
    rpc # "new" =>
        /\ rpc = "done"
        /\ Len(passed) = Len(spans)
        /\ Len(all_indices) = IndicesBefore(passed, Len(passed))
        /\ \A k \in 1..Len(passed) :
              \A i \in 1..passed[k].nindices :
                 LET index == all_indices[IndicesBefore(passed, k - 1) + i]
                 IN  /\ index < VLen(all_vertices)
                     /\ VertexOwner(all_vertices, index) = k

(***************************************************************************)
(* Claims about the classification of rings, checked under SpecRings.      *)
(***************************************************************************)
\* The shoelace sum of a ring in exact arithmetic (in quarter units).
RECURSIVE ExactShoelaceFrom(_, _)
ExactShoelaceFrom(vertices, index) ==
    IF index > Len(vertices) THEN 0
    ELSE LET current == vertices[index]
             next    == vertices[(index % Len(vertices)) + 1]
         IN  (current[1] * next[2] - next[1] * current[2])
                 + ExactShoelaceFrom(vertices, index + 1)

ExactShoelace(vertices) == ExactShoelaceFrom(vertices, 1)

\* triangulate has run (to its end or to a panic).
Triangulated ==
    \/ gpc = "done" /\ IsSome(glyph_mesh)
    \/ gpc \in {"panic_hole_first", "panic_earcut", "panic_overflow"}

\* The outline is one triangle of non-zero area, clockwise in a face with a
\* glyf table and counter-clockwise in a face without one.
OwnWindingTriangle ==
    /\ Len(polygons) = 1
    /\ Len(polygons[1]) = 3
    /\ IF glog.glyf THEN ExactShoelace(polygons[1]) < 0
                    ELSE ExactShoelace(polygons[1]) > 0

\* C11: a simple single-ring outline drawn in the face's own winding
\* convention is classified as solid, never as a hole, and triangulate
\* starts a shape group for it.
C11_OwnWindingRingIsSolid ==
    (Triangulated /\ OwnWindingTriangle) =>
        /\ ~is_polygon_hole(polygons, reverse_wind)[1]
        /\ gpc # "panic_hole_first"
        /\ gpc = "done" => glog.groups = << <<polygons[1]>> >>

(***************************************************************************)
(* Claims about the curve triangles, checked under SpecGlyph.              *)
(***************************************************************************)
\* The points of all rings, which are the flat-fill vertices.
RECURSIVE PointCount(_)
PointCount(polys) ==
    IF polys = <<>> THEN 0 ELSE Len(Head(polys)) + PointCount(Tail(polys))

\* C12: the curve triangles recorded number quad_to events plus twice the
\* curve_to events; triangulate appends 3 vertices and 3 indices per curve
\* triangle, after all flat-fill vertices and indices, the 3 indices being
\* the consecutive positions of the 3 vertices.
C12_ThreeVerticesAndIndicesPerCurve ==
    /\ Len(bezier_polygons) = glog.quads + 2 * glog.cubics
    /\ GlyphDone =>
          LET vertices == glyph_mesh.val.vertices
              indices  == glyph_mesh.val.indices
              n        == Len(bezier_polygons)
              nflat    == PointCount(polygons)
              iflat    == Len(indices) - 3 * n
          IN  /\ Len(vertices) = nflat + 3 * n
              /\ iflat >= 0
              /\ \A v \in 1..nflat : vertices[v].metadata = 0
              /\ \A i \in 1..iflat : indices[i] < nflat
              /\ \A b \in 1..n : \A i \in 1..3 :
                    /\ vertices[nflat + 3 * (b - 1) + i].metadata >= 2
                    /\ vertices[nflat + 3 * (b - 1) + i].position
                          = <<bezier_polygons[b].points[i][1],
                              bezier_polygons[b].points[i][2], 0>>
                    /\ indices[iflat + 3 * (b - 1) + i]
                          = nflat + 3 * (b - 1) + (i - 1)

\* A mesh was returned for an outline with one quad_to whose base polygon was
\* filled: flat-fill indices, then the 3 indices of the curve triangle.
C12_Witness ==
    /\ GlyphDone
    /\ glog.quads = 1 /\ glog.cubics = 0
    /\ Len(glyph_mesh.val.indices) > 3
    /\ Len(glyph_mesh.val.vertices) = PointCount(polygons) + 3

(***************************************************************************)
(* Claims about the rings of the collector, checked under SpecGlyph.       *)
(***************************************************************************)
\* C13: after any sequence of outline events for one glyph, every ring held
\* by the collector and passed to triangulation has at least 3 points.
C13_EveryRingHasThreePoints ==
    Triangulated => \A k \in 1..Len(polygons) : Len(polygons[k]) >= 3

(***************************************************************************)
(* Claims about the grouping of rings, checked under SpecGroups.           *)
(***************************************************************************)
\* The rings in the groups before group g.
RECURSIVE RingsBefore(_, _)
RingsBefore(groups, g) ==
    IF g = 1 THEN 0 ELSE RingsBefore(groups, g - 1) + Len(groups[g - 1])

\* The groups triangulate formed are the rings in encounter order, cut
\* before every ring classified as non-hole: every group opens with a
\* non-hole ring and goes on with the hole rings met before the next
\* non-hole ring, so a hole ring is in the group started last before it.
GroupedGreedily ==
    LET holes  == is_polygon_hole(polygons, reverse_wind)
        groups == glog.groups
    IN  /\ gpc # "panic_hole_first"
        /\ Flatten(groups) = polygons
        /\ Len(groups) = Cardinality({k \in 1..Len(polygons) : ~holes[k]})
        /\ \A g \in 1..Len(groups) :
              /\ groups[g] # <<>>
              /\ \A j \in 1..Len(groups[g]) :
                    holes[RingsBefore(groups, g) + j] = (j > 1)

\* C14: rings are grouped greedily in encounter order: a ring classified as
\* non-hole starts a new shape group with itself as the outer ring, a ring
\* classified as hole is appended to the most recently started group; the
\* groups partition the rings and preserve their encounter order.
C14_GreedyGroupingInOrder == Triangulated => GroupedGreedily

\* The same for the outlines whose first ring is classified as non-hole,
\* which are those the grouping loop gets through.
SolidFirstGroupedGreedily ==
    (Triangulated
        /\ (polygons = <<>> \/ ~is_polygon_hole(polygons, reverse_wind)[1]))
    => GroupedGreedily

\* Two rings classified as non-hole and then a ring classified as hole were
\* grouped: two groups, the hole attached to the second.
TwoGroupsThenHole ==
    /\ gpc = "done"
    /\ Len(polygons) = 3
    /\ is_polygon_hole(polygons, reverse_wind) = <<FALSE, FALSE, TRUE>>
    /\ glog.groups = << <<polygons[1]>>, <<polygons[2], polygons[3]>> >>

(***************************************************************************)
(* Claims about quad_to and curve_to, checked under SpecGlyph.  They are   *)
(* about one step: the builder before and after the event.                 *)
(***************************************************************************)
\* The step is a quad_to that found a current ring.
QuadStep == glog'.quads = glog.quads + 1

\* The step left the earlier rings and curve triangles alone and pushed n
\* points onto the current ring and k curve triangles onto bezier_polygons.
Pushed(n, k) ==
    /\ Len(polygons') = Len(polygons)
    /\ \A r \in 1..(Len(polygons) - 1) : polygons'[r] = polygons[r]
    /\ Len(Last(polygons')) = Len(Last(polygons)) + n
    /\ SubSeq(Last(polygons'), 1, Len(Last(polygons))) = Last(polygons)
    /\ Len(bezier_polygons') = Len(bezier_polygons) + k
    /\ SubSeq(bezier_polygons', 1, Len(bezier_polygons)) = bezier_polygons

\* What quad_to does apart from the control point: one curve triangle that
\* starts at the previous point, and its endpoint last on the ring.
QuadRecordsAndAppends ==
    LET entry == Last(bezier_polygons')
    IN  /\ Pushed(1, 1) \/ Pushed(2, 1)
        /\ entry.points[1] = LastPoint(polygons)
        /\ LastPoint(polygons') = entry.points[3]

\* The control point was pushed onto the ring, before the endpoint.
QuadControlPushed ==
    /\ Pushed(2, 1)
    /\ Last(polygons')[Len(Last(polygons)) + 1] = Last(bezier_polygons').points[2]

\* C15 as claimed: quad_to appends the endpoint and records one curve
\* triangle (previous point, control point, endpoint); the control point is
\* pushed before the endpoint exactly when the triangle's shoelace sum is
\* negative.
C15_ControlPushedIffSumNegative ==
    [][QuadStep =>
          /\ QuadRecordsAndAppends
          /\ QuadControlPushed <=> (ExactShoelace(Last(bezier_polygons').points) < 0)
      ]_vars

\* C15 as amended: the control point is pushed exactly when the triangle is
\* flagged is_inverse, which is (shoelace sum >= 0) XOR reverse_wind: a sum
\* that is not negative in a face with a glyf table, a negative sum in a face
\* without one.
C15_ControlPushedIffInverse ==
    [][QuadStep =>
          LET entry == Last(bezier_polygons')
          IN  /\ QuadRecordsAndAppends
              /\ entry.is_inverse = ((ShoelaceSum(entry.points) >= 0) # reverse_wind)
              /\ QuadControlPushed <=> entry.is_inverse
      ]_vars

\* In a face with a glyf table a quad_to whose triangle has a positive
\* shoelace sum has pushed its control point and then its endpoint.
C15_Witness ==
    /\ gpc = "outline" /\ ~reverse_wind
    /\ glog.quads = 1 /\ Len(bezier_polygons) = 1
    /\ ExactShoelace(bezier_polygons[1].points) > 0
    /\ bezier_polygons[1].is_inverse
    /\ Len(Last(polygons)) >= 3
    /\ Last(polygons)[Len(Last(polygons)) - 1] = bezier_polygons[1].points[2]
    /\ LastPoint(polygons) = bezier_polygons[1].points[3]

\* The step is a curve_to that found a current ring.
CubicStep == glog'.cubics = glog.cubics + 1

\* The points the step pushed onto the current ring.
NewRingPoints ==
    SubSeq(Last(polygons'), Len(Last(polygons)) + 1, Len(Last(polygons')))

\* C16: curve_to records exactly two curve triangles, (previous point, c1, m)
\* and (m, c2, endpoint), m the midpoint of c1 and c2, in that order; it
\* appends m and then the endpoint to the current ring, c1 before m and c2
\* before the endpoint exactly when the respective triangle is flagged
\* is_inverse.
C16_TwoTrianglesThroughMidpoint ==
    [][CubicStep =>
          LET first  == bezier_polygons'[Len(bezier_polygons) + 1]
              second == bezier_polygons'[Len(bezier_polygons) + 2]
              c1  == first.points[2]
              m   == first.points[3]
              c2  == second.points[2]
              end == second.points[3]
          IN  /\ \E n \in 2..4 : Pushed(n, 2)
              /\ first.points[1] = LastPoint(polygons)
              /\ second.points[1] = m
              /\ 2 * m[1] = c1[1] + c2[1] /\ 2 * m[2] = c1[2] + c2[2]
              /\ first.is_inverse = ((ShoelaceSum(first.points) >= 0) # reverse_wind)
              /\ second.is_inverse = ((ShoelaceSum(second.points) >= 0) # reverse_wind)
              /\ NewRingPoints =
                    (IF first.is_inverse THEN <<c1>> ELSE <<>>) \o <<m>>
                        \o (IF second.is_inverse THEN <<c2>> ELSE <<>>) \o <<end>>
      ]_vars

\* A curve_to with two different control points has recorded its two
\* triangles, one flagged and one not, and pushed three points onto the ring.
C16_Witness ==
    /\ gpc = "outline"
    /\ glog.cubics = 1 /\ Len(bezier_polygons) = 2
    /\ bezier_polygons[1].points[2] # bezier_polygons[2].points[2]
    /\ bezier_polygons[1].is_inverse # bezier_polygons[2].is_inverse
    /\ bezier_polygons[1].points[3] = bezier_polygons[2].points[1]
    /\ LastPoint(polygons) = bezier_polygons[2].points[3]
    /\ Len(Last(polygons)) = 4

(***************************************************************************)
(* Claims about the vertices triangulate emits, checked under SpecGlyph.   *)
(***************************************************************************)
\* The x, y of vertices v+1, v+2, v+3 of a mesh.
TrianglePoints(vertices, v) ==
    [i \in 1..3 |-> <<vertices[v + i].position[1], vertices[v + i].position[2]>>]

\* C17: every vertex emitted for a shape group has UV (0,0) and metadata 0;
\* the three vertices of each curve triangle have UVs (0,0), (0.5,0), (1,1)
\* in control-point order (kept in halves: <<1, 0>> is (0.5, 0)) and a
\* metadata with bit1 set and bit0 equal to (shoelace sum of the triangle's
\* 3 points >= 0) XOR reverse_wind.
C17_VertexUVAndMetadata ==
    GlyphDone =>
        LET vertices == glyph_mesh.val.vertices
            nflat    == PointCount(polygons)
            n        == (Len(vertices) - nflat) \div 3
        IN  /\ Len(vertices) = nflat + 3 * n
            /\ \A v \in 1..nflat :
                  vertices[v].uv = <<0, 0>> /\ vertices[v].metadata = 0
            /\ \A b \in 1..n :
                  LET v    == nflat + 3 * (b - 1)
                      flag == (ShoelaceSum(TrianglePoints(vertices, v)) >= 0)
                                  # reverse_wind
                  IN  /\ vertices[v + 1].uv = <<0, 0>>
                      /\ vertices[v + 2].uv = <<1, 0>>
                      /\ vertices[v + 3].uv = <<2, 2>>
                      /\ \A i \in 1..3 :
                            /\ (vertices[v + i].metadata \div 2) % 2 = 1
                            /\ vertices[v + i].metadata < 4
                            /\ (vertices[v + i].metadata % 2 = 1) <=> flag

\* A mesh with flat-fill vertices and two curve triangles, the first of
\* metadata 2 and the second of metadata 3.
C17_Witness ==
    /\ GlyphDone
    /\ Len(bezier_polygons) = 2
    /\ PointCount(polygons) >= 3
    /\ Len(glyph_mesh.val.vertices) = PointCount(polygons) + 6
    /\ glyph_mesh.val.vertices[PointCount(polygons) + 1].metadata = 2
    /\ glyph_mesh.val.vertices[PointCount(polygons) + 4].metadata = 3
    /\ glyph_mesh.val.vertices[1].metadata = 0

(***************************************************************************)
(* Claims about the winding direction, checked under SpecWind.             *)
(***************************************************************************)
\* C18: once a glyph's outline is being walked, reverse_wind is true
\* exactly when the face has no glyf table, whatever cff / cff2 tables it
\* has, and every curve triangle recorded for the glyph was oriented with
\* that value.
C18_ReverseWindIffNoGlyf ==
    gpc # "new" =>
        /\ reverse_wind = ~glog.glyf
        /\ \A b \in 1..Len(bezier_polygons) :
              bezier_polygons[b].is_inverse =
                  ((ShoelaceSum(bezier_polygons[b].points) >= 0) # (~glog.glyf))

(***************************************************************************)
(* Claims about the index offsets of TextMeshBuilder::build, checked under *)
(* SpecText.                                                               *)
(***************************************************************************)
\* The (mesh, data) pair that contributed vertex v (counted from 0) of the
\* text mesh.
RECURSIVE GlyphOfVertex(_, _)
GlyphOfVertex(runs, v) ==
    IF runs = <<>> THEN 0
    ELSE IF v < Head(runs).count THEN Head(runs).src
    ELSE GlyphOfVertex(Tail(runs), v - Head(runs).count)

\* How many indices the present meshes among the first k pairs hold.
RECURSIVE GlyphIndicesBefore(_, _)
GlyphIndicesBefore(md, k) ==
    IF k = 0 THEN 0
    ELSE GlyphIndicesBefore(md, k - 1)
            + (IF IsSome(md[k][1]) THEN Len(md[k][1].val.indices) ELSE 0)

\* C19: TextMeshBuilder::build completes for any number of glyphs and
\* vertices, and in its output every index is less than the vertex count
\* and refers to a vertex of the glyph mesh that produced it, so the index
\* ranges of different glyphs are disjoint.
C19_GlyphIndexRangesDisjoint ==
    tpc # "new" =>
        /\ tpc = "done"
        /\ Len(text_mesh.indices) = GlyphIndicesBefore(mesh_data, Len(mesh_data))
        /\ \A k \in 1..Len(mesh_data) :
              IsSome(mesh_data[k][1]) =>
                 \A i \in 1..Len(mesh_data[k][1].val.indices) :
                    LET index == text_mesh.indices[GlyphIndicesBefore(mesh_data, k - 1) + i]
                    IN  /\ index < VLen(text_mesh.vertices)
                        /\ GlyphOfVertex(text_mesh.vertices, index) = k

(***************************************************************************)
(* Claims about render's exchange with the device, checked under           *)
(* SpecRender.                                                             *)
(***************************************************************************)
\* Every occurrence of call b in the calls made so far has a before it.
CalledBefore(a, b) ==
    \A j \in 1..Len(backend.calls) :
        backend.calls[j] = b => \E i \in 1..(j - 1) : backend.calls[i] = a

\* C20: in render the draw is submitted before the texture-to-buffer copy,
\* the copy before the map is requested, the mapped data is read only after
\* the map result has been received (and is Ok), and the buffer is unmapped
\* only after the data has been copied out.
C20_BackendCallsInBlockingOrder ==
    /\ CalledBefore("submit_draw", "submit_copy")
    /\ \A i \in 1..Len(backend.queue) :
          backend.queue[i] = "copy" => \E j \in 1..(i - 1) : backend.queue[j] = "draw"
    /\ CalledBefore("submit_copy", "map_async")
    /\ CalledBefore("recv", "get_mapped_range")
    /\ backend.data => backend.received = "Ok"
    /\ CalledBefore("get_mapped_range", "unmap")
    /\ (\E j \in 1..Len(backend.calls) : backend.calls[j] = "unmap") => backend.data

\* render has made every call: the data was read from the mapped buffer
\* and the buffer is unmapped again.
C20_Witness ==
    /\ rpc = "done"
    /\ NextCall(backend) = "return"
    /\ backend.calls = <<"submit_draw", "submit_copy", "map_async", "poll",
                         "recv", "get_mapped_range", "unmap">>
    /\ backend.queue = <<"draw", "copy">>
    /\ backend.executed = 2
    /\ backend.received = "Ok"
    /\ backend.data
    /\ backend.map = "unmapped"
    /\ Len(spans) >= 1

(***************************************************************************)
(* Claims about the placement of vertices, checked under SpecPlace.        *)
(***************************************************************************)
RatAdd(a, b) ==
    Rat(a.n * (b.d \div GCD(a.d, b.d)) + b.n * (a.d \div GCD(a.d, b.d)),
        a.d * (b.d \div GCD(a.d, b.d)))

\* A coordinate translated by the cursor, scaled by
\* font_size / units * 1.254, mapped to px / texture_dim * 2 - 1, with
\* origin / texture_dim * 2 added.
PlacedAt(v, cursor, units, fs, origin, axis) ==
    RatAdd(RatAdd(RatMul(RatMul(Rat(v[axis] + cursor[axis], 1),
                                Rat(fs.n * 1254, units * 1000)),
                         Rat(2, TEXTURE_SIZE[axis])),
                  Rat(0 - 1, 1)),
           Rat(2 * origin[axis], TEXTURE_SIZE[axis]))

\* The f32 x is within 2^-18 of the f32 nearest to the fraction q: for a
\* normalized coordinate, about 1/270 of a pixel of the 1920 that span
\* [-1, 1].
FWithin(x, q) == FSub(x, FOfRat(q)).m = 0 \/ FSub(x, FOfRat(q)).e + 24 <= 0 - 18

\* C21 as stated: every vertex of a present glyph mesh is translated by the
\* cursor, scaled by font_size / face_units_per_em * 1.254, mapped to
\* px / texture_dim * 2 - 1, and has origin / texture_dim * 2 added (up to
\* the rounding of f32).
C21_ScaledByUnitsPerEm ==
    tpc = "done" =>
        \A r \in 1..Len(text_mesh.vertices), v \in PlaceVertices, axis \in 1..2 :
            FWithin(VertexPosition(v, text_mesh.vertices[r].cursor, face, font_size,
                                   position, axis),
                    PlacedAt(v, text_mesh.vertices[r].cursor, face.units_per_em,
                             font_size, position, axis))

\* C21 as amended: the same four steps in the same order, the scale being
\* font_size / face.height() * 1.254 (up to the rounding of f32).
C21_ScaledByFaceHeight ==
    tpc = "done" =>
        \A r \in 1..Len(text_mesh.vertices), v \in PlaceVertices, axis \in 1..2 :
            FWithin(VertexPosition(v, text_mesh.vertices[r].cursor, face, font_size,
                                   position, axis),
                    PlacedAt(v, text_mesh.vertices[r].cursor, face.height,
                             font_size, position, axis))

\* A mesh was built at a font size and an origin that were set, with a
\* present glyph behind a cursor that has moved on both axes, in a face
\* whose height is not its units per em.
C21_Witness ==
    /\ tpc = "done"
    /\ face.height # face.units_per_em
    /\ font_size = Px(24)
    /\ position = <<0 - 30, 45>>
    /\ \E r \in 1..Len(text_mesh.vertices) :
          /\ text_mesh.vertices[r].cursor[1] # 0
          /\ text_mesh.vertices[r].cursor[2] # 0

(***************************************************************************)
(* Claims about the conversions of FontSize, checked under SpecSize.       *)
(***************************************************************************)
\* The sum of x_advance over the first k shaped glyphs.
RECURSIVE XAdvanceSum(_, _)
XAdvanceSum(glyph_data, k) ==
    IF k = 0 THEN 0 ELSE XAdvanceSum(glyph_data, k - 1) + glyph_data[k].x_advance

\* The f32 x and y agree to 19 bits: |x - y| < |x| * 2^-19.
FNear(x, y) == FSub(x, y).m = 0 \/ FSub(x, y).e + 20 <= x.e

\* The measured width, which is an f32, as one.
MeasuredF == IF measured.d = 1 THEN FromInt(measured.n) ELSE FOfRat(measured)

\* The width measured is the sum of x_advance / face height * 1.254 times
\* the f32 x, to 19 bits.
WidthScaledBy(x) ==
    FNear(MeasuredF,
          FMul(x, FOfRat(Rat(XAdvanceSum(span.text, Len(span.text)) * 1254,
                             face.height * 1000))))

\* The words hi, n of the whole number x * 2^x.e, 0 <= x < 2^62.
WordsOf(x) ==
    IF x.e < 0 THEN [hi |-> 0, n |-> x.m \div Pow2(0 - x.e)]
    ELSE IF x.e <= 7 THEN [hi |-> 0, n |-> x.m * Pow2(x.e)]
    ELSE IF x.e <= 30
    THEN [hi |-> x.m \div Pow2(31 - x.e), n |-> (x.m % Pow2(31 - x.e)) * Pow2(x.e)]
    ELSE [hi |-> x.m * Pow2(x.e - 31), n |-> 0]

\* The f32 x is the size fs itself.
IsTheSize(x, fs) ==
    /\ x.e < 0 => x.m % Pow2(0 - x.e) = 0
    /\ WordsOf(x) = [hi |-> fs.hi, n |-> fs.n]

\* The f32 x is a whole number no further from the size fs than half a
\* unit of its last place, 2^x.e (for a size below 2^55).
IsNearestToSize(x, fs) ==
    IF x.e < 1 THEN IsTheSize(x, fs)
    ELSE \/ WordsOf(x).hi = fs.hi /\ Abs(WordsOf(x).n - fs.n) <= Pow2(x.e - 1)
         \/ /\ WordsOf(x).hi = fs.hi + 1
            /\ WordsOf(x).n = 0
            /\ fs.n >= (I32Max - Pow2(x.e - 1)) + 1

\* points * 150 / 72 as the nearest f32; from 2^22 points on, where the
\* fraction is past the integers of the model, the product and the quotient
\* are each taken in f32.
ClaimedPointPixels(fs) ==
    IF fs.hi = 0 /\ fs.n < F32Exact \div 4
    THEN FOfRat(Rat(fs.n * 150, 72))
    ELSE FDiv(FMul(UsizeAsF32(fs.hi, fs.n), FromInt(150)), FromInt(72))

\* The integer i is within 1/2 of the fraction q.
WithinHalf(i, q) == 2 * Abs(i * q.d - q.n) <= q.d

\* The integer i is the f32 x, x >= 0, rounded to the nearest integer: it is
\* within 1/2 of x, which an i32 is of no x from 2^31 up.
IsRounded(i, x) == x.e <= 7 /\ WithinHalf(i, ToRat(x))

\* The same, a half rounded away from zero.
IsRoundedHalfUp(i, x) ==
    /\ IsRounded(i, x)
    /\ 2 * (i * ToRat(x).d - ToRat(x).n) > 0 - ToRat(x).d

\* The font size generate_text_mesh subtracted for vertical End alignment.
VerticalContent == (span.position[2] + span.size.val[2]) - position[2]

BottomAligned == SpanDone /\ IsSome(span.size) /\ span.v_align = "End"

\* C23 as stated: in the width scaling a pixel size converts to itself and
\* a point size to points * 150 / 72; the integer used for vertical
\* alignment is that value rounded to the nearest integer, at most 0.5 away.
C23_ConversionsAsClaimed ==
    SpanDone =>
        LET fs == span.font_size
        IN  /\ fs.unit = "Px" => IsTheSize(FontSizeInto(fs), fs)
            /\ fs.unit = "Pt" => FNear(FontSizeInto(fs), ClaimedPointPixels(fs))
            /\ WidthScaledBy(FontSizeInto(fs))
            /\ IsRounded(FontSizeI32(fs), FontSizeInto(fs))
            /\ BottomAligned => IsRounded(VerticalContent, FontSizeInto(fs))

\* C23 as amended.  Width scaling: a pixel size converts to the f32 nearest
\* to it, which is the size itself up to 2^24, and a point size to
\* (points / 72) * 150 in f32, which is points * 150 / 72 to 19 bits.
\* Vertical alignment: a pixel size converts to the two's-complement reading
\* of its low 32 bits, which is the size itself below 2^31; a point size to
\* its float conversion rounded to the nearest integer, a half away from
\* zero, or to i32::MAX when the float conversion is 2^31 or more.  So the
\* integer is the float conversion rounded, within 0.5 of it, for the pixel
\* sizes up to 2^24 and the point sizes that are less than 2^31 pixels.
C23_ConversionsWithinF32 ==
    SpanDone =>
        LET fs == span.font_size
        IN  /\ WidthScaledBy(FontSizeInto(fs))
            /\ fs.unit = "Px" =>
                  /\ IsNearestToSize(FontSizeInto(fs), fs)
                  /\ (fs.hi = 0 /\ fs.n <= F32Exact) =>
                        /\ IsTheSize(FontSizeInto(fs), fs)
                        /\ IsRounded(FontSizeI32(fs), FontSizeInto(fs))
                  /\ BottomAligned =>
                        /\ fs.hi % 2 = 0 => VerticalContent = fs.n
                        /\ fs.hi % 2 = 1 => VerticalContent = (fs.n - I32Max) - 1
            /\ fs.unit = "Pt" =>
                  /\ FNear(FontSizeInto(fs), ClaimedPointPixels(fs))
                  /\ BottomAligned =>
                        IF FontSizeInto(fs).e <= 7
                        THEN IsRoundedHalfUp(VerticalContent, FontSizeInto(fs))
                        ELSE VerticalContent = I32Max

\* A bottom-aligned span at 6 pt, which is 12.5 pixels: 13 was subtracted.
C23_Witness ==
    /\ BottomAligned
    /\ span.font_size = Pt(6)
    /\ FontSizeF32(span.font_size) = Rat(25, 2)
    /\ VerticalContent = 13
    /\ span.text # <<>>
    /\ measured.n > 0

(***************************************************************************)
(* Claims about the draw render issues, checked under SpecRender.          *)
(***************************************************************************)
\* The width of one texture pixel in the normalized space of the vertices,
\* which maps the RenderTextureWidth pixels of a row onto [-1, 1].
NormalizedPixel == Rat(2, RenderTextureWidth)

\* C24: once the render pass is submitted, render has issued exactly one
\* indexed draw, over all composed indices, with exactly 3 instances whose
\* horizontal offsets are -1/3 pixel, +1/3 pixel and 0 in that order (up to
\* the rounding of f32).
C24_OneDrawThreeThirdPixelInstances ==
    /\ Len(backend.draws) <= 1
    /\ (\E j \in 1..Len(backend.calls) : backend.calls[j] = "submit_draw") =>
          /\ Len(backend.draws) = 1
          /\ backend.draws[1].index_count = Len(all_indices)
          /\ backend.draws[1].first_index = 0
          /\ Len(backend.draws[1].instances) = 3
          /\ FNear(backend.draws[1].instances[1],
                   FOfRat(RatMul(Rat(0 - 1, 3), NormalizedPixel)))
          /\ FNear(backend.draws[1].instances[2],
                   FOfRat(RatMul(Rat(1, 3), NormalizedPixel)))
          /\ backend.draws[1].instances[3] = FZero

\* The colors of the first k spans in the order of first appearance, a
\* color left out when it compares equal (==) to one of an earlier span.
RECURSIVE FirstSeenColors(_)
FirstSeenColors(k) ==
    IF k = 0 THEN <<>>
    ELSE IF \E j \in 1..(k - 1) : ColorEq(spans[j].color, spans[k].color)
         THEN FirstSeenColors(k - 1)
         ELSE Append(FirstSeenColors(k - 1), spans[k].color)

\* C25: after render the palette holds the spans' colors in first-seen order,
\* every span's lookup of its color in the palette succeeded (the fallback
\* index 0 of unwrap_or was not taken), and the index a span was given is
\* still the position of its color in the final palette.
C25_PaletteFirstSeenLookupSucceeds ==
    rpc = "done" =>
        /\ all_colors = FirstSeenColors(Len(spans))
        /\ \A k \in 1..Len(spans) :
              /\ IsSome(ColorPosition(all_colors, spans[k].color))
              /\ ColorPosition(all_colors, spans[k].color).val = passed[k].color_index

====
